---- MODULE Spec2Model ----
(***************************************************************************)
(* Model of the measurement core of the drone simulation harness:          *)
(*   - src/simulator/drone_utils.py: jaccard_index, convergence_index,     *)
(*     fetch_state, the sampling loop fetch_states and the position loop   *)
(*     send_locations;                                                     *)
(*   - src/simulator/traffic_analyzer.py: TrafficAnalyzer.analyze_pcap,    *)
(*     the fold of decoded packet records into the per-type statistics,    *)
(*     analyze_all and generate_summary_report;                            *)
(*   - src/simulator/metrics_collector.py: collect_metrics_loop;           *)
(*   - src/simulator/run_experiments.py: the collection thread             *)
(*     ExperimentRunner._collect_metrics_loop, run_all_experiments,        *)
(*     run_single_experiment and _setup_topology;                          *)
(*   - src/simulator/main.py: the shutdown of the sampling thread.         *)
(* Python floats are modelled as exact rationals <<num, den>> in lowest    *)
(* terms (den > 0); a division by zero yields ZeroDivisionError.           *)
(***************************************************************************)
EXTENDS Integers, Sequences, FiniteSets, TLC

VARIABLES
    \* ---- direct calls of jaccard_index / convergence_index ----
    replicas,          \* the list of sets passed to convergence_index
    cv_pc,             \* "input" | "jaccard" | "convergence"
    ji_args,           \* <<set1, set2>> of the last jaccard_index call
    ji_result,         \* its return value
    ci_visited,        \* index pairs for which the loops called jaccard_index
    ci_scores,         \* the list `scores`
    ci_result,         \* return value of convergence_index
    \* ---- the sampling loop fetch_states ----
    drones,            \* the list of drone names handed to the loop
    stop_event,        \* the shared stop flag
    fs_pc,             \* "idle" | "loop" | "wait" | "fetch" | "done" | "crashed"
    fs_i,              \* position of the for loop over the drones (1-based)
    drone_delta_sets,  \* the round's list of key sets, one per drone
    repetitions,       \* rounds completed
    convergence,       \* score of the last completed round (0.0 at first)
    csv_rows,          \* rows written so far, per drone name
    converged_report,  \* the last completed round logged "All drones have converged!"
    state_errors,      \* drones whose fetch_state call of the round in progress
                       \* logged "-> ERROR for <name>: ..."
    \* ---- the sampling loop collect_metrics_loop ----
    cl_pc,             \* "idle" | "loop" | "wait" | "collect" | "state" | "crdt" |
                       \* "done" | "crashed"
    cl_i,              \* position of the for loop over the drones (1-based)
    iteration,         \* rounds completed
    collector,         \* the MetricsCollector: rows written per file, files closed
    \* ---- ExperimentRunner._collect_metrics_loop ----
    rn_pc,             \* "idle" | "loop" | "wait" | "collect" | "done" | "crashed"
    rn_iteration,      \* its local `iteration`
    futures,           \* the round's futures, one per drone: [done, result]
    yielded,           \* the futures as_completed has handed to the for loop
    metrics_rows,      \* rows record_metrics wrote to metrics.csv (as a set)
    \* ---- the position loop send_locations ----
    sl_pc,             \* "idle" | "loop" | "wait" | "send" | "done"
    sl_i,              \* position of the for loop over the drones (1-based)
    positions_sent,    \* the drones a position was posted to so far
    \* ---- the thread that started a sampling loop and shuts it down ----
    joined,            \* its join(timeout=...) on the sampling thread returned
    files_closed,      \* it closed the CSV files the sampling thread writes
    \* ---- ExperimentRunner.run_all_experiments ----
    experiments_json,  \* data["experiments"] of the experiments file
    experiments,       \* self.experiments
    su_pc,             \* "idle" | "header" | "run" | "complete" | "aborted"
    idx,               \* the loop index of run_all_experiments (from 1)
    ex_pc,             \* position in run_single_experiment: "idle" | "setup" |
                       \* "threads" | "run" | "stop" | "finish"
    attempted,         \* ids run_single_experiment was called with, in order
    suite_log,         \* the "completed successfully" / "failed" lines logged
    config,            \* the attributes of module config that are overridden
    original_values,   \* the local of _setup_topology
    stations,          \* number of drone nodes of the current topology
    stop_events,       \* experiment id -> its stop_event is set, for the
                       \* experiments whose threads were started
    rounds_during,     \* <<e, c>>: a thread of experiment e began a round
                       \* while experiment c was the one being run
    \* ---- TrafficAnalyzer.analyze_pcap ----
    pcap,              \* the capture file: [exists, size, frames]
    ap_pc,             \* "idle" | "start" | "udp_run" | "udp_fold" | "http_run" |
                       \* "http_fold" | "calc" | "done"
    ap_return,         \* "none" | "empty" ({} returned) | "results"
    results,           \* the results dictionary
    tshark_lines,      \* lines of the current tshark output still to fold
    frame_metadata,    \* result of _extract_frame_metadata
    drone_name,        \* the argument of analyze_pcap: it names the capture file
    warnings,          \* the warnings printed so far: [file, kind]
    \* ---- TrafficAnalyzer.analyze_all ----
    drone_names,       \* the argument of analyze_all
    pcap_dir,          \* the capture file found for each drone name
    aa_pc,             \* "idle" | "loop" | "done"
    aa_i,              \* position of the for loop over drone_names (1-based)
    all_stats,         \* the mapping drone name -> results
    summary            \* what generate_summary_report computed and wrote

cvVars == <<replicas, cv_pc, ji_args, ji_result, ci_visited, ci_scores, ci_result>>

fsVars == <<drones, stop_event, fs_pc, fs_i, drone_delta_sets, repetitions,
            convergence, csv_rows, converged_report, state_errors>>

clVars == <<cl_pc, cl_i, iteration, collector>>

rnVars == <<rn_pc, rn_iteration, futures, yielded, metrics_rows>>

slVars == <<sl_pc, sl_i, positions_sent>>

mnVars == <<joined, files_closed>>

suVars == <<experiments_json, experiments, su_pc, idx, ex_pc, attempted,
            suite_log, config, original_values, stations, stop_events,
            rounds_during>>

taVars == <<pcap, ap_pc, ap_return, results, tshark_lines, frame_metadata,
            drone_name, warnings>>

aaVars == <<drone_names, pcap_dir, aa_pc, aa_i, all_stats, summary>>

vars == <<cvVars, fsVars, clVars, rnVars, slVars, mnVars, suVars, taVars, aaVars>>

-----------------------------------------------------------------------------
(* Bounds *)
MaxReplicas == 3       \* longest list handed to convergence_index
MaxDrones == 3         \* most drones handed to the sampling loop
MaxRounds == 2         \* sampling rounds explored
MaxFrames == 3         \* most frames in a capture file
MaxSources == 2        \* most drone names handed to analyze_all
MaxSourceFrames == 1   \* most frames in a capture file handed to analyze_all
MaxLoopDrones == 2     \* most drones of a loop that is followed through shutdown
MaxExperiments == 2    \* most entries of the experiments file

(* The cells a delta can name; the element of a delta set is its key. *)
Cells == { [x |-> 0, y |-> 0], [x |-> 1, y |-> 1], [x |-> 0, y |-> 1] }

\* Python None; floats are pairs, so None is a tuple as well
NoValue == <<"None">>
NoError == "no exception"

-----------------------------------------------------------------------------
(* Rational arithmetic standing for Python float arithmetic *)

ZeroDivisionError == <<"ZeroDivisionError">>

Abs(n) == IF n < 0 THEN -n ELSE n

RECURSIVE GCD(_, _)
GCD(a, b) == IF b = 0 THEN a ELSE GCD(b, a % b)

Frac(n, d) == LET g == GCD(Abs(n), d) IN <<n \div g, d \div g>>

\* Python's `n / d` on ints
TrueDiv(n, d) == IF d = 0 THEN ZeroDivisionError ELSE Frac(n, d)

One == <<1, 1>>
Zero == <<0, 1>>

FracAdd(p, q) == Frac(p[1] * q[2] + q[1] * p[2], p[2] * q[2])

\* Python's `f / k` for a float f and an int k
FracDivInt(p, k) == IF k = 0 THEN ZeroDivisionError ELSE Frac(p[1], p[2] * k)

FracLess(p, q) == p[1] * q[2] < q[1] * p[2]

\* Python's sum(): left fold starting from 0
RECURSIVE SumScores(_)
SumScores(s) == IF s = <<>> THEN Zero
                ELSE FracAdd(SumScores(SubSeq(s, 1, Len(s) - 1)), s[Len(s)])

-----------------------------------------------------------------------------
(* drone_utils.py: cell key, jaccard_index, convergence_index *)

\* f"{cell['x']},{cell['y']}"
CellKey(cell) == ToString(cell.x) \o "," \o ToString(cell.y)

Keys == { CellKey(c) : c \in Cells }

JaccardNoEmptyGuard(set1, set2) ==
    TrueDiv(Cardinality(set1 \cap set2), Cardinality(set1 \cup set2))

JaccardSumOfSizes(set1, set2) ==
    IF set1 = {} /\ set2 = {}
    THEN One
    ELSE TrueDiv(Cardinality(set1 \cap set2), Cardinality(set1) + Cardinality(set2))

JaccardIndex(set1, set2) ==
    IF set1 = {} /\ set2 = {}
    THEN One
    ELSE LET inter == Cardinality(set1 \cap set2)
             uni   == Cardinality(set1 \cup set2)
         IN  TrueDiv(inter, uni)

\* for i in range(n): for j in range(i + 1, n): scores.append(jaccard(...))
\* (indices are 1-based here); acc is the list of [i, j, score] so far.
RECURSIVE ScoreLoopFromZero(_, _, _, _)
ScoreLoopFromZero(reps, i, j, acc) ==
    LET n == Len(reps) IN
    IF i > n THEN acc
    ELSE IF j > n THEN ScoreLoopFromZero(reps, i + 1, 1, acc)
    ELSE ScoreLoopFromZero(reps, i, j + 1,
            Append(acc, [i |-> i, j |-> j, score |-> JaccardIndex(reps[i], reps[j])]))

RECURSIVE ScoreLoop(_, _, _, _)
ScoreLoop(reps, i, j, acc) ==
    LET n == Len(reps) IN
    IF i > n THEN acc
    ELSE IF j > n THEN ScoreLoop(reps, i + 1, i + 2, acc)
    ELSE ScoreLoop(reps, i, j + 1,
            Append(acc, [i |-> i, j |-> j, score |-> JaccardIndex(reps[i], reps[j])]))

ScoresOf(trace) == [k \in 1..Len(trace) |-> trace[k].score]
PairsOf(trace)  == [k \in 1..Len(trace) |-> <<trace[k].i, trace[k].j>>]

ConvergenceNoShortCut(reps) ==
    LET scores == ScoresOf(ScoreLoop(reps, 1, 2, <<>>))
    IN  FracDivInt(SumScores(scores), Len(scores))

ConvergenceIndex(reps) ==
    IF Len(reps) < 2
    THEN One
    ELSE LET scores == ScoresOf(ScoreLoop(reps, 1, 2, <<>>))
         IN  FracDivInt(SumScores(scores), Len(scores))

-----------------------------------------------------------------------------
(* Direct calls: the inputs are drawn in Init, the actions apply the       *)
(* functions.                                                              *)

ReplicaLists == UNION { [1..n -> SUBSET Keys] : n \in 0..MaxReplicas }

CvIdle ==
    /\ replicas = <<>>
    /\ cv_pc = "idle"
    /\ ji_args = NoValue
    /\ ji_result = NoValue
    /\ ci_visited = <<>>
    /\ ci_scores = <<>>
    /\ ci_result = NoValue

InitConv ==
    /\ replicas \in ReplicaLists
    /\ cv_pc = "input"
    /\ ji_args = NoValue
    /\ ji_result = NoValue
    /\ ci_visited = <<>>
    /\ ci_scores = <<>>
    /\ ci_result = NoValue

\* jaccard_index(replicas[i], replicas[j]) for any two entries of the list
CallJaccardIndex ==
    /\ cv_pc = "input"
    /\ \E i \in 1..Len(replicas), j \in 1..Len(replicas) :
          /\ ji_args' = <<replicas[i], replicas[j]>>
          /\ ji_result' = JaccardIndex(replicas[i], replicas[j])
    /\ cv_pc' = "jaccard"
    /\ UNCHANGED <<replicas, ci_visited, ci_scores, ci_result>>

\* convergence_index(replicas)
CallConvergenceIndex ==
    /\ cv_pc = "input"
    /\ LET trace == IF Len(replicas) < 2 THEN <<>>
                    ELSE ScoreLoop(replicas, 1, 2, <<>>)
       IN  /\ ci_visited' = PairsOf(trace)
           /\ ci_scores' = ScoresOf(trace)
    /\ ci_result' = ConvergenceIndex(replicas)
    /\ cv_pc' = "convergence"
    /\ UNCHANGED <<replicas, ji_args, ji_result>>

-----------------------------------------------------------------------------
(* drone_utils.py: fetch_state, fetch_states *)

\* config.DRONE_NAMES = [f"dr{i}" for i in range(1, DRONE_NUMBER + 1)]
DroneNames(n) == [k \in 1..n |-> "dr" \o ToString(k)]

\* meta objects and deltas a /state response can carry
MetaA == [detected_by |-> "dr1", timestamp |-> 1000, confidence |-> 90]
MetaB == [detected_by |-> "dr2", timestamp |-> 2000, confidence |-> 60]

Delta(x, y, m) == [cell |-> [x |-> x, y |-> y], meta |-> m]
DeltaNoCell    == [meta |-> MetaA]
DeltaNoMeta    == [cell |-> [x |-> 0, y |-> 0]]

\* What `curl .../state` can print: text that is not JSON, JSON that is not
\* an object, an object without all_deltas, and objects with all_deltas.
Responses ==
    { [kind |-> "bad_json"],
      [kind |-> "not_object"],
      [kind |-> "object"],
      [kind |-> "object", all_deltas |-> <<>>],
      [kind |-> "object", all_deltas |-> <<Delta(0, 0, MetaA)>>],
      [kind |-> "object", all_deltas |-> <<Delta(0, 0, MetaB), Delta(1, 1, MetaA)>>],
      [kind |-> "object", all_deltas |-> <<Delta(0, 0, MetaB), Delta(0, 0, MetaA)>>],
      [kind |-> "object", all_deltas |-> <<Delta(1, 1, MetaA), DeltaNoCell>>],
      [kind |-> "object", all_deltas |-> <<DeltaNoMeta>>] }

HasKey(obj, k) == k \in DOMAIN obj

\* fetch_state: [raised |-> exception escaping the function or NoError,
\*               logged |-> an ERROR line was logged,
\*               is_none |-> timestamp_ms is None,
\*               timestamp_ms, confidence, all_deltas]
\* `return None, None, []` for an empty all_deltas
Skipped == [raised |-> NoError, logged |-> FALSE, is_none |-> TRUE,
            timestamp_ms |-> NoValue, confidence |-> NoValue, all_deltas |-> <<>>]

\* `return None, None, []` of the two except clauses
Failed == [raised |-> NoError, logged |-> TRUE, is_none |-> TRUE,
           timestamp_ms |-> NoValue, confidence |-> NoValue, all_deltas |-> <<>>]

FetchState(resp) ==
    IF resp.kind = "bad_json" THEN Failed                \* JSONDecodeError
    ELSE IF resp.kind = "not_object"                      \* data["all_deltas"]
    THEN [raised |-> "TypeError", logged |-> FALSE, is_none |-> TRUE,
          timestamp_ms |-> NoValue, confidence |-> NoValue, all_deltas |-> <<>>]
    ELSE IF ~HasKey(resp, "all_deltas") THEN Failed       \* KeyError
    ELSE IF resp.all_deltas = <<>> THEN Skipped           \* not all_deltas
    ELSE LET first_fire == resp.all_deltas[1] IN
         IF ~HasKey(first_fire, "meta") THEN Failed       \* KeyError
         ELSE IF ~HasKey(first_fire.meta, "timestamp")
                 \/ ~HasKey(first_fire.meta, "confidence") THEN Failed
         ELSE [raised |-> NoError, logged |-> FALSE, is_none |-> FALSE,
               timestamp_ms |-> first_fire.meta.timestamp,
               confidence |-> first_fire.meta.confidence,
               all_deltas |-> resp.all_deltas]

RECURSIVE AddPayloadKeys(_, _)
AddPayloadKeys(all_deltas, keys) ==
    IF all_deltas = <<>> THEN [raised |-> NoError, keys |-> keys]
    ELSE LET fire == Head(all_deltas) IN
         IF ~HasKey(fire, "cell") THEN [raised |-> "KeyError", keys |-> keys]
         ELSE IF ~HasKey(fire.cell, "x") \/ ~HasKey(fire.cell, "y")
         THEN [raised |-> "KeyError", keys |-> keys]
         ELSE AddPayloadKeys(Tail(all_deltas),
                 keys \cup {IF HasKey(fire, "meta")
                            THEN CellKey(fire.cell) \o "@" \o fire.meta.detected_by
                            ELSE CellKey(fire.cell)})

\* for fire_with_meta in all_deltas: ... drone_delta_sets[i].add(cell_key)
\* returns [raised, keys]; a delta without cell / x / y raises KeyError
RECURSIVE AddCellKeys(_, _)
AddCellKeys(all_deltas, keys) ==
    IF all_deltas = <<>> THEN [raised |-> NoError, keys |-> keys]
    ELSE LET fire == Head(all_deltas) IN
         IF ~HasKey(fire, "cell") THEN [raised |-> "KeyError", keys |-> keys]
         ELSE IF ~HasKey(fire.cell, "x") \/ ~HasKey(fire.cell, "y")
         THEN [raised |-> "KeyError", keys |-> keys]
         ELSE AddCellKeys(Tail(all_deltas), keys \cup {CellKey(fire.cell)})

FsIdle ==
    /\ drones = <<>>
    /\ stop_event = FALSE
    /\ fs_pc = "idle"
    /\ fs_i = 0
    /\ drone_delta_sets = <<>>
    /\ repetitions = 0
    /\ convergence = Zero
    /\ csv_rows = <<>>
    /\ converged_report = FALSE
    /\ state_errors = {}

\* fetch_states(drones, stop_event, csv_writers) has just been entered
InitFetch ==
    /\ \E n \in 0..MaxDrones : drones = DroneNames(n)
    /\ stop_event = FALSE
    /\ fs_pc = "loop"
    /\ fs_i = 0
    /\ drone_delta_sets = <<>>
    /\ repetitions = 0
    /\ convergence = Zero
    /\ csv_rows = [k \in 1..Len(drones) |-> <<>>]
    /\ converged_report = FALSE
    /\ state_errors = {}

\* another thread sets the stop flag
SetStop ==
    /\ \/ fs_pc \in {"loop", "wait", "fetch"}
       \/ cl_pc \in {"loop", "wait", "collect", "state", "crdt"}
       \/ rn_pc \in {"loop", "wait", "collect"}
       \/ sl_pc \in {"loop", "wait", "send"}
    /\ ~stop_event
    /\ stop_event' = TRUE
    /\ UNCHANGED <<drones, fs_pc, fs_i, drone_delta_sets, repetitions,
                   convergence, csv_rows, converged_report, state_errors>>

\* while not stop_event.is_set():
FsLoopTest ==
    /\ fs_pc = "loop"
    /\ fs_pc' = IF stop_event THEN "done" ELSE "wait"
    /\ UNCHANGED <<drones, stop_event, fs_i, drone_delta_sets, repetitions,
                   convergence, csv_rows, converged_report, state_errors>>

FsWaitKeepingSets ==
    /\ fs_pc = "wait"
    /\ stop_event \/ repetitions < MaxRounds
    /\ IF stop_event
       THEN /\ fs_pc' = "done"
            /\ UNCHANGED <<fs_i, drone_delta_sets>>
       ELSE /\ fs_pc' = "fetch"
            /\ fs_i' = 1
            /\ drone_delta_sets' = IF repetitions = 0
                                   THEN [k \in 1..Len(drones) |-> {}]
                                   ELSE drone_delta_sets
    /\ UNCHANGED <<drones, stop_event, repetitions, convergence, csv_rows,
                   converged_report, state_errors>>

FsWaitWithoutRecheck ==
    /\ fs_pc = "wait"
    /\ stop_event \/ repetitions < MaxRounds
    /\ fs_pc' = "fetch"
    /\ fs_i' = 1
    /\ drone_delta_sets' = [k \in 1..Len(drones) |-> {}]
    /\ UNCHANGED <<drones, stop_event, repetitions, convergence, csv_rows,
                   converged_report, state_errors>>

\* stop_event.wait(FETCH_INTERVAL); if stop_event.is_set(): break;
\* drone_delta_sets = [set() for _ in drones]
FsWait ==
    /\ fs_pc = "wait"
    /\ stop_event \/ repetitions < MaxRounds
    /\ IF stop_event
       THEN /\ fs_pc' = "done"
            /\ UNCHANGED <<fs_i, drone_delta_sets>>
       ELSE /\ fs_pc' = "fetch"
            /\ fs_i' = 1
            /\ drone_delta_sets' = [k \in 1..Len(drones) |-> {}]
    /\ UNCHANGED <<drones, stop_event, repetitions, convergence, csv_rows,
                   converged_report, state_errors>>

\* one iteration of `for i, drone in enumerate(drones)`
FsFetchDrone ==
    /\ fs_pc = "fetch"
    /\ fs_i <= Len(drones)
    /\ \E resp \in Responses :
         LET st == FetchState(resp) IN
         /\ state_errors' = IF st.logged THEN state_errors \cup {drones[fs_i]}
                             ELSE state_errors
         /\ IF st.raised # NoError
            THEN /\ fs_pc' = "crashed"
                 /\ UNCHANGED <<fs_i, drone_delta_sets, csv_rows>>
            ELSE IF st.is_none
            THEN /\ fs_i' = fs_i + 1                          \* continue
                 /\ UNCHANGED <<fs_pc, drone_delta_sets, csv_rows>>
            ELSE LET added == AddCellKeys(st.all_deltas, drone_delta_sets[fs_i]) IN
                 /\ drone_delta_sets' = [drone_delta_sets EXCEPT ![fs_i] = added.keys]
                 /\ IF added.raised # NoError
                    THEN /\ fs_pc' = "crashed"
                         /\ UNCHANGED <<fs_i, csv_rows>>
                    ELSE IF files_closed     \* writerow: ValueError, closed file
                    THEN /\ fs_pc' = "crashed"
                         /\ UNCHANGED <<fs_i, csv_rows>>
                    ELSE /\ csv_rows' = [csv_rows EXCEPT ![fs_i] = Append(@,
                                [timestamp   |-> st.timestamp_ms,
                                 deltas      |-> st.all_deltas,
                                 confidence  |-> st.confidence,
                                 repetitions |-> repetitions,
                                 convergence |-> convergence])]
                         /\ fs_i' = fs_i + 1
                         /\ UNCHANGED fs_pc
    /\ UNCHANGED <<drones, stop_event, repetitions, convergence, converged_report>>

FsScoreKeepingOldScore ==
    /\ fs_pc = "fetch"
    /\ fs_i > Len(drones)
    /\ repetitions' = repetitions + 1
    /\ converged_report' = (ConvergenceIndex(drone_delta_sets) = One)
    /\ state_errors' = {}
    /\ fs_pc' = "loop"
    /\ UNCHANGED <<drones, stop_event, fs_i, drone_delta_sets, csv_rows, convergence>>

FsScoreStoppingWhenConverged ==
    /\ fs_pc = "fetch"
    /\ fs_i > Len(drones)
    /\ repetitions' = repetitions + 1
    /\ convergence' = ConvergenceIndex(drone_delta_sets)
    /\ converged_report' = (convergence' = One)
    /\ state_errors' = {}
    /\ stop_event' = (stop_event \/ convergence' = One)
    /\ fs_pc' = "loop"
    /\ UNCHANGED <<drones, fs_i, drone_delta_sets, csv_rows>>

\* after the for loop: repetitions += 1; convergence = convergence_index(...);
\* info("--- Repetition ...");
\* if convergence == 1.0: info("-> All drones have converged! <-")
FsScore ==
    /\ fs_pc = "fetch"
    /\ fs_i > Len(drones)
    /\ repetitions' = repetitions + 1
    /\ convergence' = ConvergenceIndex(drone_delta_sets)
    /\ converged_report' = (convergence' = One)
    /\ state_errors' = {}
    /\ fs_pc' = "loop"
    /\ UNCHANGED <<drones, stop_event, fs_i, drone_delta_sets, csv_rows>>

-----------------------------------------------------------------------------
(* metrics_collector.py: MetricsCollector, collect_metrics_loop *)

\* What `curl .../stats` can print, or no reply at all (drone.cmd raised)
StatsResponses ==
    { [kind |-> "no_reply"],
      [kind |-> "bad_json"],
      [kind |-> "not_object"],
      [kind |-> "object", empty |-> TRUE],
      [kind |-> "object", empty |-> FALSE] }

\* fetch_stats: None, or the parsed JSON value: [is_none, truthy, is_dict]
FetchStats(resp) ==
    IF resp.kind \in {"no_reply", "bad_json"}
    THEN [is_none |-> TRUE, truthy |-> FALSE, is_dict |-> FALSE]
    ELSE IF resp.kind = "not_object"
    THEN [is_none |-> FALSE, truthy |-> TRUE, is_dict |-> FALSE]
    ELSE [is_none |-> FALSE, truthy |-> ~resp.empty, is_dict |-> TRUE]

\* MetricsCollector.__init__: four files opened, a header row in each
NewCollector ==
    [closed |-> FALSE, network |-> 0, crdt |-> 0, topology |-> 0,
     convergence |-> <<>>]

\* MetricsCollector.close
Close(col) == [col EXCEPT !.closed = TRUE]

\* collect_network_metrics: `if not stats: return`, then stats.get(...),
\* which a JSON value that is no object does not have
CollectNetworkMetrics(col, stats) ==
    IF ~stats.truthy THEN [raised |-> NoError, collector |-> col]
    ELSE IF ~stats.is_dict THEN [raised |-> "AttributeError", collector |-> col]
    ELSE [raised |-> NoError, collector |-> [col EXCEPT !.network = @ + 1]]

\* collect_crdt_metrics: fetches /state once more; all_deltas is never None
CollectCrdtMetrics(col, st) ==
    IF st.raised # NoError THEN [raised |-> st.raised, collector |-> col]
    ELSE [raised |-> NoError, collector |-> [col EXCEPT !.crdt = @ + 1]]

\* collect_topology_metrics
CollectTopologyMetrics(col) == [col EXCEPT !.topology = @ + 1]

RECURSIVE SumInts(_)
SumInts(q) == IF q = <<>> THEN 0 ELSE Head(q) + SumInts(Tail(q))

MinOf(q) == CHOOSE m \in { q[k] : k \in DOMAIN q } : \A k \in DOMAIN q : m <= q[k]
MaxOf(q) == CHOOSE m \in { q[k] : k \in DOMAIN q } : \A k \in DOMAIN q : m >= q[k]

\* collect_convergence_metrics
CollectConvergenceMetrics(col, drone_list, iter, convergence_idx, sets) ==
    LET delta_counts == [k \in DOMAIN sets |-> Cardinality(sets[k])]
    IN  [col EXCEPT !.convergence = Append(@,
            [iteration         |-> iter,
             convergence_index |-> convergence_idx,
             num_drones        |-> Len(drone_list),
             avg_delta_count   |-> IF delta_counts # <<>>
                                   THEN TrueDiv(SumInts(delta_counts), Len(delta_counts))
                                   ELSE Zero,
             min_delta_count   |-> IF delta_counts # <<>> THEN MinOf(delta_counts) ELSE 0,
             max_delta_count   |-> IF delta_counts # <<>> THEN MaxOf(delta_counts) ELSE 0])]

ClIdle ==
    /\ cl_pc = "idle"
    /\ cl_i = 0
    /\ iteration = 0
    /\ collector = NewCollector

\* collect_metrics_loop(drones, stop_event, ...) has just been entered:
\* collector = MetricsCollector(...); iteration = 0
InitCollect ==
    /\ \E n \in 0..MaxDrones : drones = DroneNames(n)
    /\ stop_event = FALSE
    /\ fs_pc = "idle"
    /\ fs_i = 0
    /\ drone_delta_sets = <<>>
    /\ repetitions = 0
    /\ convergence = NoValue
    /\ csv_rows = <<>>
    /\ converged_report = FALSE
    /\ state_errors = {}
    /\ cl_pc = "loop"
    /\ cl_i = 0
    /\ iteration = 0
    /\ collector = NewCollector

\* while not stop_event.is_set():      (finally: collector.close())
ClLoopTest ==
    /\ cl_pc = "loop"
    /\ IF stop_event
       THEN cl_pc' = "done" /\ collector' = Close(collector)
       ELSE cl_pc' = "wait" /\ UNCHANGED collector
    /\ UNCHANGED <<fsVars, cl_i, iteration>>

\* stop_event.wait(FETCH_INTERVAL); if stop_event.is_set(): break;
\* drone_delta_sets = [set() for _ in drones]
ClWait ==
    /\ cl_pc = "wait"
    /\ stop_event \/ iteration < MaxRounds
    /\ IF stop_event
       THEN /\ cl_pc' = "done"
            /\ collector' = Close(collector)
            /\ UNCHANGED <<cl_i, drone_delta_sets>>
       ELSE /\ cl_pc' = "collect"
            /\ cl_i' = 1
            /\ drone_delta_sets' = [k \in 1..Len(drones) |-> {}]
            /\ UNCHANGED collector
    /\ UNCHANGED <<drones, stop_event, fs_pc, fs_i, repetitions, convergence,
                   csv_rows, converged_report, state_errors, iteration>>

\* An exception that escapes the loop body runs `finally: collector.close()`
\* and ends the loop.
\* for i, drone in enumerate(drones):
\*     collector.collect_network_metrics(drone, timestamp)
ClNetwork ==
    /\ cl_pc = "collect"
    /\ cl_i <= Len(drones)
    /\ \E stats_resp \in StatsResponses :
         LET net == CollectNetworkMetrics(collector, FetchStats(stats_resp))
         IN  IF net.raised # NoError
             THEN cl_pc' = "crashed" /\ collector' = Close(net.collector)
             ELSE cl_pc' = "state" /\ collector' = net.collector
    /\ UNCHANGED <<fsVars, cl_i, iteration>>

\*     _, _, all_deltas = fetch_state(drone)
\*     if all_deltas: for fire_with_meta in all_deltas: ... .add(cell_key)
\* and, when all_deltas is empty, collect_topology_metrics
ClState ==
    /\ cl_pc = "state"
    /\ \E resp \in Responses :
         LET st == FetchState(resp)
             added == AddCellKeys(st.all_deltas, drone_delta_sets[cl_i])
         IN  IF st.raised # NoError
             THEN /\ cl_pc' = "crashed"
                  /\ collector' = Close(collector)
                  /\ UNCHANGED <<cl_i, drone_delta_sets, state_errors>>
             ELSE /\ state_errors' = IF st.logged
                                     THEN state_errors \cup {drones[cl_i]}
                                     ELSE state_errors
                  /\ IF st.all_deltas = <<>>
                     THEN /\ collector' = CollectTopologyMetrics(collector)
                          /\ cl_i' = cl_i + 1
                          /\ cl_pc' = "collect"
                          /\ UNCHANGED drone_delta_sets
                     ELSE /\ drone_delta_sets' =
                                [drone_delta_sets EXCEPT ![cl_i] = added.keys]
                          /\ IF added.raised # NoError
                             THEN cl_pc' = "crashed" /\ collector' = Close(collector)
                             ELSE cl_pc' = "crdt" /\ UNCHANGED collector
                          /\ UNCHANGED cl_i
    /\ UNCHANGED <<drones, stop_event, fs_pc, fs_i, repetitions, convergence,
                   csv_rows, converged_report, iteration>>

\*         collector.collect_crdt_metrics(drone, timestamp)
\*     collector.collect_topology_metrics(drone, drones, timestamp)
ClCrdt ==
    /\ cl_pc = "crdt"
    /\ \E again \in Responses :
         LET crdt == CollectCrdtMetrics(collector, FetchState(again))
         IN  IF crdt.raised # NoError
             THEN /\ cl_pc' = "crashed"
                  /\ collector' = Close(crdt.collector)
                  /\ UNCHANGED cl_i
             ELSE /\ collector' = CollectTopologyMetrics(crdt.collector)
                  /\ cl_i' = cl_i + 1
                  /\ cl_pc' = "collect"
    /\ UNCHANGED <<fsVars, iteration>>

\* after the for loop: convergence = convergence_index(drone_delta_sets);
\* collector.collect_convergence_metrics(...); iteration += 1; print(...)
ClScore ==
    /\ cl_pc = "collect"
    /\ cl_i > Len(drones)
    /\ convergence' = ConvergenceIndex(drone_delta_sets)
    /\ collector' = CollectConvergenceMetrics(collector, drones, iteration,
                                              convergence', drone_delta_sets)
    /\ iteration' = iteration + 1
    /\ state_errors' = {}
    /\ cl_pc' = "loop"
    /\ UNCHANGED <<drones, stop_event, fs_pc, fs_i, drone_delta_sets, repetitions,
                   csv_rows, converged_report, cl_i>>

-----------------------------------------------------------------------------
(* run_experiments.py: ExperimentRunner._collect_metrics_loop *)

\* What _fetch_drone_metrics returns: the pair (stats, state), each None
\* when its curl gave no JSON. `stats` is "none", "object" (a non-empty
\* JSON object) or "not_object" (another true JSON value); `state` alike.
FetchResults ==
    { [stats |-> "object", state |-> "object"],
      [stats |-> "object", state |-> "none"],
      [stats |-> "object", state |-> "not_object"],
      [stats |-> "none", state |-> "object"],
      [stats |-> "not_object", state |-> "object"] }

Pending == [done |-> FALSE, result |-> [stats |-> "none", state |-> "none"]]

\* the body of the for loop for one completed future: record_metrics is
\* called `if stats:`; stats.get / state.get raise AttributeError on a
\* value that is no object, which `except Exception: pass` swallows
RecordMetrics(rows, name, timestamp, result) ==
    IF result.stats = "none" THEN rows
    ELSE IF result.stats = "not_object" THEN rows
    ELSE IF result.state = "not_object" THEN rows
    ELSE rows \cup {[drone_id |-> name, t |-> timestamp,
                     has_state |-> result.state = "object"]}

RnIdle ==
    /\ rn_pc = "idle"
    /\ rn_iteration = 0
    /\ futures = <<>>
    /\ yielded = {}
    /\ metrics_rows = {}

\* _collect_metrics_loop(drones, stop_event, collector, sample_interval_sec)
\* has just been entered, with at least one drone
InitRunner ==
    /\ \E n \in 1..MaxDrones : drones = DroneNames(n)
    /\ stop_event = FALSE
    /\ fs_pc = "idle"
    /\ fs_i = 0
    /\ drone_delta_sets = <<>>
    /\ repetitions = 0
    /\ convergence = Zero
    /\ csv_rows = <<>>
    /\ converged_report = FALSE
    /\ state_errors = {}
    /\ rn_pc = "loop"
    /\ rn_iteration = 0
    /\ futures = <<>>
    /\ yielded = {}
    /\ metrics_rows = {}

\* while not stop_event.is_set():
RnLoopTest ==
    /\ rn_pc = "loop"
    /\ rn_pc' = IF stop_event THEN "done" ELSE "wait"
    /\ UNCHANGED <<fsVars, rn_iteration, futures, yielded, metrics_rows>>

\* stop_event.wait(sample_interval_sec); if stop_event.is_set(): break;
\* futures = {executor.submit(self._fetch_drone_metrics, drone, ...): ...}
RnWait ==
    /\ rn_pc = "wait"
    /\ stop_event \/ rn_iteration < MaxRounds
    /\ IF stop_event
       THEN /\ rn_pc' = "done"
            /\ UNCHANGED <<futures, yielded>>
       ELSE /\ rn_pc' = "collect"
            /\ futures' = [k \in 1..Len(drones) |-> Pending]
            /\ yielded' = {}
    /\ UNCHANGED <<fsVars, rn_iteration, metrics_rows>>

\* a worker thread finishes _fetch_drone_metrics for one drone
RnFetchDone ==
    /\ rn_pc = "collect"
    /\ \E k \in DOMAIN futures, res \in FetchResults :
         /\ ~futures[k].done
         /\ futures' = [futures EXCEPT ![k] = [done |-> TRUE, result |-> res]]
    /\ UNCHANGED <<fsVars, rn_pc, rn_iteration, yielded, metrics_rows>>

\* as_completed yields a finished future and the loop body handles it;
\* writerow on a closed metrics.csv raises ValueError, swallowed as well
RnYield ==
    /\ rn_pc = "collect"
    /\ \E k \in DOMAIN futures :
         /\ futures[k].done
         /\ k \notin yielded
         /\ yielded' = yielded \cup {k}
         /\ metrics_rows' = IF files_closed THEN metrics_rows
                            ELSE RecordMetrics(metrics_rows, drones[k], rn_iteration,
                                               futures[k].result)
    /\ UNCHANGED <<fsVars, rn_pc, rn_iteration, futures>>

\* as_completed(futures, timeout=sample_interval_sec * 0.8) raises
\* TimeoutError while a future is unfinished; the for statement is not
\* inside the try, so the exception leaves the while loop and the function
RnTimeout ==
    /\ rn_pc = "collect"
    /\ \E k \in DOMAIN futures : ~futures[k].done
    /\ rn_pc' = "crashed"
    /\ UNCHANGED <<fsVars, rn_iteration, futures, yielded, metrics_rows>>

\* every future was yielded: iteration += 1
RnRoundEnd ==
    /\ rn_pc = "collect"
    /\ yielded = DOMAIN futures
    /\ rn_iteration' = rn_iteration + 1
    /\ rn_pc' = "loop"
    /\ UNCHANGED <<fsVars, futures, yielded, metrics_rows>>

-----------------------------------------------------------------------------
(* drone_utils.py: send_locations *)

SlIdle ==
    /\ sl_pc = "idle"
    /\ sl_i = 0
    /\ positions_sent = {}

\* send_locations(drones, stop_event) has just been entered
InitSend ==
    /\ \E n \in 0..MaxDrones : drones = DroneNames(n)
    /\ stop_event = FALSE
    /\ fs_pc = "idle"
    /\ fs_i = 0
    /\ drone_delta_sets = <<>>
    /\ repetitions = 0
    /\ convergence = Zero
    /\ csv_rows = <<>>
    /\ converged_report = FALSE
    /\ state_errors = {}
    /\ sl_pc = "loop"
    /\ sl_i = 0
    /\ positions_sent = {}

\* while not stop_event.is_set():
SlLoopTest ==
    /\ sl_pc = "loop"
    /\ sl_pc' = IF stop_event THEN "done" ELSE "wait"
    /\ UNCHANGED <<fsVars, sl_i, positions_sent>>

\* stop_event.wait(FETCH_INTERVAL); if stop_event.is_set(): break
SlWait ==
    /\ sl_pc = "wait"
    /\ IF stop_event
       THEN sl_pc' = "done" /\ UNCHANGED sl_i
       ELSE sl_pc' = "send" /\ sl_i' = 1
    /\ UNCHANGED <<fsVars, positions_sent>>

\* for drone in drones: send_drone_location(drone)
SlSend ==
    /\ sl_pc = "send"
    /\ sl_i <= Len(drones)
    /\ positions_sent' = positions_sent \cup {drones[sl_i]}
    /\ sl_i' = sl_i + 1
    /\ UNCHANGED <<fsVars, sl_pc>>

\* the for loop is exhausted: back to the loop test
SlRoundEnd ==
    /\ sl_pc = "send"
    /\ sl_i > Len(drones)
    /\ sl_pc' = "loop"
    /\ UNCHANGED <<fsVars, sl_i, positions_sent>>

-----------------------------------------------------------------------------
(* main.py: main, run_experiments.py: run_single_experiment -- shutdown of *)
(* the sampling thread                                                     *)

MnIdle ==
    /\ joined = FALSE
    /\ files_closed = FALSE

\* fetch_thread.join(timeout=5) / collection_thread.join(timeout=10), after
\* stop_event.set(): it returns when the thread has ended or when the
\* timeout has passed, whichever comes first; the timeout can pass only
\* while the thread is inside a round, waiting for a drone's reply
MainJoin ==
    /\ \/ fs_pc \in {"done", "crashed"}
       \/ fs_pc = "fetch" /\ fs_i <= Len(drones)
       \/ rn_pc \in {"done", "crashed"}
       \/ rn_pc = "collect" /\ \E k \in DOMAIN futures : ~futures[k].done
    /\ stop_event
    /\ ~joined
    /\ joined' = TRUE
    /\ UNCHANGED files_closed

\* for file_handle in csv_files.values(): file_handle.close()
\* / collector.close()
MainClose ==
    /\ joined
    /\ ~files_closed
    /\ files_closed' = TRUE
    /\ UNCHANGED joined

-----------------------------------------------------------------------------
(* run_experiments.py: ExperimentRunner.load_experiments,                  *)
(* run_all_experiments, run_single_experiment, _setup_topology             *)

\* config.py
DRONE_NUMBER == 10
DRONE_SPEED == 20
SIMULATION_MULTIPLIER == 5
SPEED == DRONE_SPEED * SIMULATION_MULTIPLIER
MOBILITY_MODEL == "TruncatedLevyWalk"

\* DRONE_NAMES = [f"dr{i}" for i in range(1, DRONE_NUMBER + 1)]: built once,
\* when config is imported; drone_utils binds it with `from config import`
DRONE_NAMES == DroneNames(DRONE_NUMBER)

\* the attributes of module config as they are after import
ConfigAtImport ==
    [DRONE_NUMBER |-> DRONE_NUMBER, SPEED |-> SPEED, MOBILITY_MODEL |-> MOBILITY_MODEL]

\* the drone counts an experiment can ask for
DroneCounts == {2, DRONE_NUMBER}

\* "parameters" of an experiment, with and without duration_sec
Parameters ==
    { [drone_count |-> n, duration_sec |-> 1] : n \in DroneCounts }
    \cup { [drone_count |-> n] : n \in DroneCounts }

\* the entries the experiments file can hold at position k: "enabled" and
\* "description" may be absent
Entries(k) ==
    LET id == "exp" \o ToString(k) IN
    { [id |-> id, description |-> "text", parameters |-> p] : p \in Parameters }
    \cup { [id |-> id, description |-> "text", enabled |-> b, parameters |-> p] :
             b \in BOOLEAN, p \in Parameters }
    \cup { [id |-> id, parameters |-> p] : p \in Parameters }
    \cup { [id |-> id, enabled |-> b, parameters |-> p] :
             b \in BOOLEAN, p \in Parameters }

ExperimentFiles ==
    UNION { { f \in [1..n -> UNION { Entries(k) : k \in 1..n }] :
                \A k \in 1..n : f[k] \in Entries(k) } : n \in 0..MaxExperiments }

\* exp.get("enabled", True)
Enabled(exp) == IF HasKey(exp, "enabled") THEN exp.enabled ELSE TRUE

\* load_experiments: [exp for exp in data["experiments"] if exp.get("enabled", True)]
LoadExperiments(data) == SelectSeq(data, Enabled)

NoEvents == [e \in {} |-> FALSE]

SuIdle ==
    /\ experiments_json = <<>>
    /\ experiments = <<>>
    /\ su_pc = "idle"
    /\ idx = 0
    /\ ex_pc = "idle"
    /\ attempted = <<>>
    /\ suite_log = <<>>
    /\ config = ConfigAtImport
    /\ original_values = ConfigAtImport
    /\ stations = 0
    /\ stop_events = NoEvents
    /\ rounds_during = {}

\* ExperimentRunner(...) was constructed and run_all_experiments entered
InitSuite ==
    /\ experiments_json \in ExperimentFiles
    /\ experiments = LoadExperiments(experiments_json)
    /\ su_pc = "header"
    /\ idx = 1
    /\ ex_pc = "idle"
    /\ attempted = <<>>
    /\ suite_log = <<>>
    /\ config = ConfigAtImport
    /\ original_values = ConfigAtImport
    /\ stations = 0
    /\ stop_events = NoEvents
    /\ rounds_during = {}

experiment == experiments[idx]

\* except Exception as e: info("... failed ..."); continue
ExperimentFailed ==
    /\ suite_log' = Append(suite_log, [id |-> experiment.id, result |-> "failed"])
    /\ ex_pc' = "idle"
    /\ su_pc' = "header"
    /\ idx' = idx + 1

\* for idx, experiment in enumerate(self.experiments, 1): the header lines
\* info(f"... {experiment['id']}"), info(f"{experiment['description']}"),
\* which are outside the try, and the call of run_single_experiment
SuHeader ==
    /\ su_pc = "header"
    /\ idx <= Len(experiments)
    /\ IF ~HasKey(experiment, "description")
       THEN /\ su_pc' = "aborted"                             \* KeyError
            /\ UNCHANGED <<ex_pc, attempted>>
       ELSE /\ su_pc' = "run"
            /\ ex_pc' = "setup"
            /\ attempted' = Append(attempted, experiment.id)
    /\ UNCHANGED <<experiments_json, experiments, idx, suite_log, config,
                   original_values, stations, stop_events, rounds_during>>

\* the for loop is exhausted: "EXPERIMENT SUITE COMPLETE"
SuComplete ==
    /\ su_pc = "header"
    /\ idx > Len(experiments)
    /\ su_pc' = "complete"
    /\ UNCHANGED <<experiments_json, experiments, idx, ex_pc, attempted, suite_log,
                   config, original_values, stations, stop_events, rounds_during>>

\* run_single_experiment up to `net, drones = self._setup_topology(params)`.
\* _setup_topology saves three attributes of config, assigns
\* config.DRONE_NUMBER and config.MOBILITY_MODEL, calls setup_topology(),
\* which makes one station per name in its own DRONE_NAMES, builds and
\* starts the network (which can fail), and restores the attributes.
ExSetupTopology ==
    /\ su_pc = "run"
    /\ ex_pc = "setup"
    /\ original_values' = config
    /\ \E failed \in BOOLEAN :
         IF failed
         THEN /\ config' = [config EXCEPT
                              !.DRONE_NUMBER = experiment.parameters.drone_count,
                              !.MOBILITY_MODEL = "GaussMarkov"]
              /\ ExperimentFailed
              /\ UNCHANGED stations
         ELSE /\ config' = original_values'
              /\ stations' = Len(DRONE_NAMES)
              /\ ex_pc' = "threads"
              /\ UNCHANGED <<su_pc, idx, suite_log>>
    /\ UNCHANGED <<experiments_json, experiments, attempted, stop_events,
                   rounds_during>>

\* loss, capture, drone applications, then stop_event = threading.Event()
\* and the collection and location threads are started
ExStartThreads ==
    /\ su_pc = "run"
    /\ ex_pc = "threads"
    /\ stop_events' = [e \in DOMAIN stop_events \cup {experiment.id} |->
                          IF e = experiment.id THEN FALSE ELSE stop_events[e]]
    /\ ex_pc' = "run"
    /\ UNCHANGED <<experiments_json, experiments, su_pc, idx, attempted, suite_log,
                   config, original_values, stations, rounds_during>>

\* duration = params["duration_sec"]; time.sleep(duration)
ExRun ==
    /\ su_pc = "run"
    /\ ex_pc = "run"
    /\ IF ~HasKey(experiment.parameters, "duration_sec")
       THEN ExperimentFailed                                   \* KeyError
       ELSE /\ ex_pc' = "stop"
            /\ UNCHANGED <<su_pc, idx, suite_log>>
    /\ UNCHANGED <<experiments_json, experiments, attempted, config,
                   original_values, stations, stop_events, rounds_during>>

\* stop_event.set(); collection_thread.join(timeout=10);
\* location_thread.join(timeout=5)
ExStop ==
    /\ su_pc = "run"
    /\ ex_pc = "stop"
    /\ stop_events' = [stop_events EXCEPT ![experiment.id] = TRUE]
    /\ ex_pc' = "finish"
    /\ UNCHANGED <<experiments_json, experiments, su_pc, idx, attempted, suite_log,
                   config, original_values, stations, rounds_during>>

\* stop_capture, analyze_all, collector.close(), _generate_report, cleanup,
\* net.stop(): any of them can fail; on return run_all_experiments logs
\* "completed successfully" and goes on after the cooldown
ExFinish ==
    /\ su_pc = "run"
    /\ ex_pc = "finish"
    /\ \E failed \in BOOLEAN :
         IF failed
         THEN ExperimentFailed
         ELSE /\ suite_log' = Append(suite_log,
                                [id |-> experiment.id, result |-> "completed"])
              /\ ex_pc' = "idle"
              /\ su_pc' = "header"
              /\ idx' = idx + 1
    /\ UNCHANGED <<experiments_json, experiments, attempted, config,
                   original_values, stations, stop_events, rounds_during>>

\* a collection or location thread whose stop_event is not set begins a
\* round while some experiment is being run
ThreadRound ==
    /\ su_pc = "run"
    /\ \E e \in DOMAIN stop_events :
         /\ ~stop_events[e]
         /\ rounds_during' = rounds_during \cup {<<e, experiment.id>>}
    /\ UNCHANGED <<experiments_json, experiments, su_pc, idx, ex_pc, attempted,
                   suite_log, config, original_values, stations, stop_events>>

-----------------------------------------------------------------------------
(* traffic_analyzer.py: TrafficAnalyzer.analyze_pcap *)

MessageTypes == {"DELTA", "ANTI-ENTROPY", "STATE", "STATS", "POSITION", "HELLO", "UNKNOWN"}

MinPcapHeader == 24        \* minimum pcap header size
DiscoveryPort == 7000      \* config.UDP_PORT
HttpPort == 8080           \* config.TCP_PORT

\* int(text) for a decimal string given as its digits
RECURSIVE ParseInt(_)
ParseInt(digits) ==
    IF digits = <<>> THEN 0
    ELSE 10 * ParseInt(SubSeq(digits, 1, Len(digits) - 1)) + digits[Len(digits)]

\* size = int(parts[1]) if parts[1] else 0
FieldSize(field) == IF field # <<>> THEN ParseInt(field) ELSE 0

Header(name, value) == [name |-> name, value |-> value]
HostHeader == Header("Host", "10.0.1.0:8080")
TypeHeader(value) == Header("X-Message-Type", value)

UdpFrame(port, len) ==
    [proto |-> "udp", port |-> port, len |-> len, path |-> "",
     request |-> <<>>, response |-> <<>>]
TcpFrame(len) ==
    [proto |-> "tcp", port |-> HttpPort, len |-> len, path |-> "",
     request |-> <<>>, response |-> <<>>]
HttpRequest(path, headers, len) ==
    [proto |-> "http", port |-> HttpPort, len |-> len, path |-> path,
     request |-> headers, response |-> <<>>]
HttpResponse(path, headers, len) ==
    [proto |-> "http", port |-> HttpPort, len |-> len, path |-> path,
     request |-> <<>>, response |-> headers]

\* The frames a capture on a drone interface can hold.
Frames ==
    { UdpFrame(DiscoveryPort, <<4>>),
      UdpFrame(5353, <<1, 2>>),
      TcpFrame(<<4>>),
      HttpRequest("/delta", <<HostHeader, TypeHeader("DELTA")>>, <<1, 2>>),
      HttpResponse("/delta", <<TypeHeader("DELTA")>>, <<4>>),
      HttpResponse("/delta", <<TypeHeader("DELTA")>>, <<1, 2>>),
      HttpRequest("/delta", <<HostHeader>>, <<1, 2>>),
      HttpResponse("/delta", <<Header("Content-Type", "application/json")>>, <<4>>),
      HttpRequest("/state", <<HostHeader, TypeHeader("state")>>, <<4>>),
      HttpRequest("/stats", <<TypeHeader("STATS"), HostHeader>>, <<4>>),
      HttpRequest("/sensor", <<HostHeader, TypeHeader("SENSOR")>>, <<1, 2>>) }

Captures == UNION { [1..n -> Frames] : n \in 0..MaxFrames }

RECURSIVE SumLens(_)
SumLens(frames) ==
    IF frames = <<>> THEN 0
    ELSE ParseInt(Head(frames).len) + SumLens(Tail(frames))

\* The files analyze_pcap can find: none, an empty one, one shorter than
\* the pcap header, and a capture of some frames (a header and the frames).
RejectedFiles ==
    { [exists |-> FALSE, size |-> 0, frames |-> <<>>],
      [exists |-> TRUE, size |-> 0, frames |-> <<>>],
      [exists |-> TRUE, size |-> 10, frames |-> <<>>] }

PcapFiles ==
    RejectedFiles
    \cup { [exists |-> TRUE, size |-> MinPcapHeader + SumLens(c), frames |-> c] :
             c \in Captures }

ValidateExistsOnly(file) == file.exists

\* _validate_pcap_file
ValidatePcapFile(file) ==
    IF ~file.exists THEN FALSE
    ELSE IF file.size = 0 THEN FALSE
    ELSE IF file.size < MinPcapHeader THEN FALSE
    ELSE TRUE

InitialStat == [count |-> 0, bytes |-> 0, requests |-> 0, responses |-> 0,
                percentage_unresponded |-> Zero]

\* _initialize_results
InitializeResults ==
    [total_packets |-> 0, total_bytes |-> 0,
     udp_packets |-> 0, udp_bytes |-> 0,
     tcp_packets |-> 0, tcp_bytes |-> 0,
     avg_packet_size |-> Zero,
     packet_sizes |-> <<>>,
     by_message_type |-> [t \in MessageTypes |-> InitialStat]]

\* tshark -Y udp -T fields -e frame.number -e frame.len: one line per UDP
\* frame, already split at "|"
RECURSIVE TsharkUdpFrom(_, _)
TsharkUdpFrom(frames, k) ==
    IF k > Len(frames) THEN <<>>
    ELSE IF frames[k].proto = "udp"
         THEN << <<ToString(k), frames[k].len>> >> \o TsharkUdpFrom(frames, k + 1)
         ELSE TsharkUdpFrom(frames, k + 1)

\* tshark -Y http -T fields -e frame.number -e frame.len
\*        -e http.response_for.uri -e http.request.line -e http.response.line
RECURSIVE TsharkHttpFrom(_, _)
TsharkHttpFrom(frames, k) ==
    IF k > Len(frames) THEN <<>>
    ELSE IF frames[k].proto = "http"
         THEN << <<ToString(k), frames[k].len,
                   IF frames[k].response # <<>> THEN frames[k].path ELSE "",
                   frames[k].request, frames[k].response>> >>
              \o TsharkHttpFrom(frames, k + 1)
         ELSE TsharkHttpFrom(frames, k + 1)

\* retrieve_message_type: the value after "X-Message-Type:" in a header
\* line, or nothing ("" here: None and "" are both false at the call sites)
NoMatch == ""

RetrieveAnyHeaderValue(header_line) == header_line.value

RetrieveMessageType(header_line) ==
    IF header_line.name = "X-Message-Type" THEN header_line.value ELSE NoMatch

\* for header_line in value.split(...): msg_type = retrieve_message_type(..);
\* if msg_type: ...; break
RECURSIVE FirstMessageType(_)
FirstMessageType(header_lines) ==
    IF header_lines = <<>> THEN NoMatch
    ELSE LET msg_type == RetrieveMessageType(Head(header_lines)) IN
         IF msg_type # NoMatch THEN msg_type
         ELSE FirstMessageType(Tail(header_lines))

\* _extract_frame_metadata: frame_key -> [msg_type, is_response]
RECURSIVE ExtractFrameMetadata(_, _)
ExtractFrameMetadata(lines, metadata) ==
    IF lines = <<>> THEN metadata
    ELSE LET parts == Head(lines) IN
         IF Len(parts) < 4 THEN ExtractFrameMetadata(Tail(lines), metadata)
         ELSE LET frame_key == parts[1]
                  http_request_value  == parts[4]
                  http_response_value == IF Len(parts) > 4 THEN parts[5] ELSE <<>>
                  req_type  == FirstMessageType(http_request_value)
                  resp_type == FirstMessageType(http_response_value)
                  after_request ==
                      IF req_type # NoMatch
                      THEN [k \in DOMAIN metadata \cup {frame_key} |->
                              IF k = frame_key
                              THEN [msg_type |-> req_type, is_response |-> FALSE]
                              ELSE metadata[k]]
                      ELSE metadata
                  after_response ==
                      IF resp_type # NoMatch
                      THEN [k \in DOMAIN after_request \cup {frame_key} |->
                              IF k = frame_key
                              THEN [msg_type |-> resp_type, is_response |-> TRUE]
                              ELSE after_request[k]]
                      ELSE after_request
              IN  ExtractFrameMetadata(Tail(lines), after_response)

NoMetadata == [k \in {} |-> NoMatch]

UpdatePacketStatsCountOnly(res, size, is_udp) ==
    IF is_udp
    THEN [res EXCEPT !.total_packets = @ + 1,
                     !.packet_sizes = Append(@, size),
                     !.udp_packets = @ + 1,
                     !.udp_bytes = @ + size]
    ELSE [res EXCEPT !.total_packets = @ + 1,
                     !.packet_sizes = Append(@, size),
                     !.tcp_packets = @ + 1,
                     !.tcp_bytes = @ + size]

UpdatePacketStatsAsUdp(res, size, is_udp) ==
    [res EXCEPT !.total_packets = @ + 1,
                !.total_bytes = @ + size,
                !.packet_sizes = Append(@, size),
                !.udp_packets = @ + 1,
                !.udp_bytes = @ + size]

UpdatePacketStatsWithoutSizes(res, size, is_udp) ==
    LET r == [res EXCEPT !.total_packets = @ + 1,
                         !.total_bytes = @ + size]
    IN  IF is_udp
        THEN [r EXCEPT !.udp_packets = @ + 1, !.udp_bytes = @ + size]
        ELSE [r EXCEPT !.tcp_packets = @ + 1, !.tcp_bytes = @ + size]

\* _update_packet_stats
UpdatePacketStats(res, size, is_udp) ==
    LET r == [res EXCEPT !.total_packets = @ + 1,
                         !.total_bytes = @ + size,
                         !.packet_sizes = Append(@, size)]
    IN  IF is_udp
        THEN [r EXCEPT !.udp_packets = @ + 1, !.udp_bytes = @ + size]
        ELSE [r EXCEPT !.tcp_packets = @ + 1, !.tcp_bytes = @ + size]

UpdateKnownMessageTypesOnly(res, msg_type, size, is_request) ==
    IF msg_type \notin DOMAIN res.by_message_type THEN res
    ELSE [res EXCEPT !.by_message_type[msg_type] =
            [@ EXCEPT !.count = @ + 1,
                      !.bytes = @ + size,
                      !.requests = IF is_request THEN @ + 1 ELSE @,
                      !.responses = IF is_request THEN @ ELSE @ + 1]]

UpdateMessageTypeStatsCountingReplies(res, msg_type, size, is_request) ==
    LET t == IF msg_type \notin DOMAIN res.by_message_type
             THEN "UNKNOWN" ELSE msg_type
    IN  [res EXCEPT !.by_message_type[t] =
            [@ EXCEPT !.count = @ + 1,
                      !.bytes = @ + size,
                      !.requests = @ + 1,
                      !.responses = IF is_request THEN @ ELSE @ + 1]]

\* _update_message_type_stats
UpdateMessageTypeStats(res, msg_type, size, is_request) ==
    LET t == IF msg_type \notin DOMAIN res.by_message_type
             THEN "UNKNOWN" ELSE msg_type
    IN  [res EXCEPT !.by_message_type[t] =
            [@ EXCEPT !.count = @ + 1,
                      !.bytes = @ + size,
                      !.requests = IF is_request THEN @ + 1 ELSE @,
                      !.responses = IF is_request THEN @ ELSE @ + 1]]

UnrespondedOverCount(stats) ==
    TrueDiv((stats.requests - stats.responses) * 100, stats.count)

\* the percentage assigned to one message type by _calculate_statistics
PercentageUnresponded(stats) ==
    IF stats.requests > 0
    THEN LET unresponded == stats.requests - stats.responses
         IN  TrueDiv(unresponded * 100, stats.requests)
    ELSE Zero

CalculateStatisticsUnguarded(res) ==
    [res EXCEPT !.avg_packet_size = TrueDiv(res.total_bytes, res.total_packets),
                !.by_message_type =
                    [t \in DOMAIN res.by_message_type |->
                        [res.by_message_type[t] EXCEPT
                            !.percentage_unresponded =
                                PercentageUnresponded(res.by_message_type[t])]]]

\* _calculate_statistics
CalculateStatistics(res) ==
    LET avg == IF res.total_packets > 0
               THEN TrueDiv(res.total_bytes, res.total_packets)
               ELSE res.avg_packet_size
    IN  [res EXCEPT !.avg_packet_size = avg,
                    !.by_message_type =
                        [t \in DOMAIN res.by_message_type |->
                            [res.by_message_type[t] EXCEPT
                                !.percentage_unresponded =
                                    PercentageUnresponded(res.by_message_type[t])]]]

UdpMessageTypeUnknown == "UNKNOWN"

\* "UDP packets are HELLO multicast"
UdpMessageType == "HELLO"

MsgTypeFromUri(metadata, parts) ==
    IF parts[1] \in DOMAIN metadata THEN metadata[parts[1]].msg_type
    ELSE IF parts[3] = "/delta" THEN "DELTA"
    ELSE "UNKNOWN"

\* frame_metadata.get(frame_key, {}).get("msg_type", "UNKNOWN")
MsgTypeOf(metadata, parts) ==
    IF parts[1] \in DOMAIN metadata THEN metadata[parts[1]].msg_type ELSE "UNKNOWN"

\* frame_metadata.get(frame_key, {}).get("is_response", False)
IsResponseOf(metadata, parts) ==
    IF parts[1] \in DOMAIN metadata THEN metadata[parts[1]].is_response ELSE FALSE

TaIdle ==
    /\ pcap = [exists |-> FALSE, size |-> 0, frames |-> <<>>]
    /\ ap_pc = "idle"
    /\ ap_return = "none"
    /\ results = InitializeResults
    /\ tshark_lines = <<>>
    /\ frame_metadata = NoMetadata
    /\ drone_name = ""
    /\ warnings = {}

\* analyze_pcap(drone_name) has just been called on some capture file
InitTraffic ==
    /\ pcap \in PcapFiles
    /\ ap_pc = "start"
    /\ ap_return = "none"
    /\ results = InitializeResults
    /\ tshark_lines = <<>>
    /\ frame_metadata = NoMetadata
    /\ drone_name = "dr1"
    /\ warnings = {}

Warning(name, kind) == [file |-> name, kind |-> kind]

\* what _validate_pcap_file prints about a file it rejects
ValidationWarnings(name, file) ==
    IF ~file.exists THEN {}
    ELSE IF file.size = 0 THEN {Warning(name, "empty")}
    ELSE IF file.size < MinPcapHeader THEN {Warning(name, "too small")}
    ELSE {}

\* if not self._validate_pcap_file(pcap_file): return {}
\* results = self._initialize_results()
ApValidate ==
    /\ ap_pc = "start"
    /\ IF ValidatePcapFile(pcap)
       THEN /\ ap_pc' = "udp_run"
            /\ results' = InitializeResults
            /\ UNCHANGED ap_return
       ELSE /\ ap_pc' = "done"
            /\ ap_return' = "empty"
            /\ UNCHANGED results
    /\ warnings' = warnings \cup ValidationWarnings(drone_name, pcap)
    /\ UNCHANGED <<pcap, tshark_lines, frame_metadata, drone_name>>

\* _analyze_udp_packets: subprocess.run(udp_cmd, check=True); a failing
\* tshark raises CalledProcessError, which is caught and only reported
ApRunUdp ==
    /\ ap_pc = "udp_run"
    /\ \E failed \in BOOLEAN :
         IF failed
         THEN /\ ap_pc' = "http_run"
              /\ warnings' = warnings \cup {Warning(drone_name, "udp failed")}
              /\ UNCHANGED tshark_lines
         ELSE LET out == TsharkUdpFrom(pcap.frames, 1) IN
              /\ tshark_lines' = out
              /\ ap_pc' = IF out = <<>> THEN "http_run" ELSE "udp_fold"
              /\ UNCHANGED warnings
    /\ UNCHANGED <<pcap, ap_return, results, frame_metadata, drone_name>>

\* one iteration of the loop over the lines of the UDP output
ApFoldUdp ==
    /\ ap_pc = "udp_fold"
    /\ tshark_lines # <<>>
    /\ LET parts == Head(tshark_lines) IN
       IF Len(parts) < 2
       THEN UNCHANGED results
       ELSE LET size == FieldSize(parts[2]) IN
            results' = UpdateMessageTypeStats(
                           UpdatePacketStats(results, size, TRUE),
                           UdpMessageType, size, TRUE)
    /\ tshark_lines' = Tail(tshark_lines)
    /\ ap_pc' = IF Tail(tshark_lines) = <<>> THEN "http_run" ELSE "udp_fold"
    /\ UNCHANGED <<pcap, ap_return, frame_metadata, drone_name, warnings>>

\* _handle_pcap_error: it only prints, one of two warnings according to
\* whether tshark's stderr says the file was cut short
HandlePcapError(name, cut_short) ==
    IF cut_short THEN {Warning(name, "cut short")}
    ELSE {Warning(name, "http failed")}

\* _analyze_http_packets: subprocess.run(http_cmd, check=True) and
\* _extract_frame_metadata; CalledProcessError goes to _handle_pcap_error
ApRunHttp ==
    /\ ap_pc = "http_run"
    /\ \E failed \in BOOLEAN, cut_short \in BOOLEAN :
         IF failed
         THEN /\ ap_pc' = "calc"
              /\ tshark_lines' = <<>>
              /\ warnings' = warnings \cup HandlePcapError(drone_name, cut_short)
              /\ UNCHANGED frame_metadata
         ELSE LET out == TsharkHttpFrom(pcap.frames, 1) IN
              /\ tshark_lines' = out
              /\ frame_metadata' = ExtractFrameMetadata(out, NoMetadata)
              /\ ap_pc' = IF out = <<>> THEN "calc" ELSE "http_fold"
              /\ UNCHANGED warnings
    /\ UNCHANGED <<pcap, ap_return, results, drone_name>>

\* one iteration of the loop over the lines of the HTTP output
ApFoldHttp ==
    /\ ap_pc = "http_fold"
    /\ tshark_lines # <<>>
    /\ LET parts == Head(tshark_lines) IN
       IF Len(parts) < 2
       THEN UNCHANGED results
       ELSE LET size == FieldSize(parts[2])
                msg_type == MsgTypeOf(frame_metadata, parts)
                is_response == IsResponseOf(frame_metadata, parts)
            IN  results' = UpdateMessageTypeStats(
                               UpdatePacketStats(results, size, FALSE),
                               msg_type, size, ~is_response)
    /\ tshark_lines' = Tail(tshark_lines)
    /\ ap_pc' = IF Tail(tshark_lines) = <<>> THEN "calc" ELSE "http_fold"
    /\ UNCHANGED <<pcap, ap_return, frame_metadata, drone_name, warnings>>

\* self._calculate_statistics(results); return results
ApCalculate ==
    /\ ap_pc = "calc"
    /\ results' = CalculateStatistics(results)
    /\ ap_return' = "results"
    /\ ap_pc' = "done"
    /\ UNCHANGED <<pcap, tshark_lines, frame_metadata, drone_name, warnings>>

-----------------------------------------------------------------------------
(* traffic_analyzer.py: TrafficAnalyzer.analyze_all, generate_summary_report *)

\* The frames of the capture files handed to analyze_all
SourceFrames ==
    { UdpFrame(DiscoveryPort, <<4>>),
      TcpFrame(<<4>>),
      HttpRequest("/delta", <<HostHeader, TypeHeader("DELTA")>>, <<1, 2>>),
      HttpResponse("/delta", <<TypeHeader("DELTA")>>, <<4>>) }

SourceCaptures == UNION { [1..n -> SourceFrames] : n \in 0..MaxSourceFrames }

SourceFiles ==
    RejectedFiles
    \cup { [exists |-> TRUE, size |-> MinPcapHeader + SumLens(c), frames |-> c] :
             c \in SourceCaptures }

\* Python's sum() over the values of a mapping to ints
RECURSIVE SumOf(_)
SumOf(f) ==
    IF DOMAIN f = {} THEN 0
    ELSE LET k == CHOOSE x \in DOMAIN f : TRUE
         IN  f[k] + SumOf([j \in DOMAIN f \ {k} |-> f[j]])

\* (part / whole * 100) if whole > 0 else 0
Percent(part, whole) == IF whole > 0 THEN Frac(part * 100, whole) ELSE Zero

\* the mean over the sources of a per-source percentage
RECURSIVE FracSumOver(_, _)
FracSumOver(S, f) ==
    IF S = {} THEN Zero
    ELSE LET n == CHOOSE x \in S : TRUE
         IN  FracAdd(f[n], FracSumOver(S \ {n}, f))

SummaryOfAveragedShares(stats) ==
    LET total_packets == SumOf([n \in DOMAIN stats |-> stats[n].total_packets])
        total_bytes   == SumOf([n \in DOMAIN stats |-> stats[n].total_bytes])
        types == UNION { DOMAIN stats[n].by_message_type : n \in DOMAIN stats }
        msg_type_totals ==
            [t \in types |->
                [count |-> SumOf([n \in DOMAIN stats |->
                                     stats[n].by_message_type[t].count]),
                 bytes |-> SumOf([n \in DOMAIN stats |->
                                     stats[n].by_message_type[t].bytes])]]
    IN  [drones_analyzed |-> Cardinality(DOMAIN stats),
         total_packets   |-> total_packets,
         total_bytes     |-> total_bytes,
         msg_type_totals |-> msg_type_totals,
         breakdown |->
             [t \in types |->
                 [pct_packets |-> FracDivInt(
                      FracSumOver(DOMAIN stats, [n \in DOMAIN stats |->
                          Percent(stats[n].by_message_type[t].count,
                                  stats[n].total_packets)]),
                      Cardinality(DOMAIN stats)),
                  pct_bytes |-> FracDivInt(
                      FracSumOver(DOMAIN stats, [n \in DOMAIN stats |->
                          Percent(stats[n].by_message_type[t].bytes,
                                  stats[n].total_bytes)]),
                      Cardinality(DOMAIN stats))]],
         per_drone |->
             [n \in DOMAIN stats |->
                 [udp_pct |-> Percent(stats[n].udp_packets, stats[n].total_packets),
                  tcp_pct |-> Percent(stats[n].tcp_packets, stats[n].total_packets)]]]

\* generate_summary_report: the numbers it computes and writes
GenerateSummaryReport(stats) ==
    LET total_packets == SumOf([n \in DOMAIN stats |-> stats[n].total_packets])
        total_bytes   == SumOf([n \in DOMAIN stats |-> stats[n].total_bytes])
        types == UNION { DOMAIN stats[n].by_message_type : n \in DOMAIN stats }
        msg_type_totals ==
            [t \in types |->
                [count |-> SumOf([n \in DOMAIN stats |->
                                     stats[n].by_message_type[t].count]),
                 bytes |-> SumOf([n \in DOMAIN stats |->
                                     stats[n].by_message_type[t].bytes])]]
    IN  [drones_analyzed |-> Cardinality(DOMAIN stats),
         total_packets   |-> total_packets,
         total_bytes     |-> total_bytes,
         msg_type_totals |-> msg_type_totals,
         breakdown |->
             [t \in types |->
                 [pct_packets |-> Percent(msg_type_totals[t].count, total_packets),
                  pct_bytes   |-> Percent(msg_type_totals[t].bytes, total_bytes)]],
         per_drone |->
             [n \in DOMAIN stats |->
                 [udp_pct |-> Percent(stats[n].udp_packets, stats[n].total_packets),
                  tcp_pct |-> Percent(stats[n].tcp_packets, stats[n].total_packets)]]]

EmptyStats == [n \in {} |-> InitializeResults]

AaIdle ==
    /\ drone_names = <<>>
    /\ pcap_dir = <<>>
    /\ aa_pc = "idle"
    /\ aa_i = 0
    /\ all_stats = EmptyStats
    /\ summary = <<>>

\* analyze_all(drone_names) has just been entered: all_stats = {}
InitAll ==
    /\ \E n \in 0..MaxSources : drone_names = DroneNames(n)
    /\ pcap_dir \in [{ drone_names[k] : k \in DOMAIN drone_names } -> SourceFiles]
    /\ aa_pc = "loop"
    /\ aa_i = 1
    /\ all_stats = EmptyStats
    /\ summary = <<>>

\* for name in drone_names: stats = self.analyze_pcap(name)   (the call)
AaCall ==
    /\ aa_pc = "loop"
    /\ ap_pc = "idle"
    /\ aa_i <= Len(drone_names)
    /\ drone_name' = drone_names[aa_i]
    /\ pcap' = pcap_dir[drone_names[aa_i]]
    /\ ap_pc' = "start"
    /\ ap_return' = "none"
    /\ results' = InitializeResults
    /\ tshark_lines' = <<>>
    /\ frame_metadata' = NoMetadata
    /\ UNCHANGED <<warnings, aaVars>>

\* if stats: all_stats[name] = stats     ({} is false, the results
\* dictionary is not: it always holds its keys)
AaStore ==
    /\ aa_pc = "loop"
    /\ ap_pc = "done"
    /\ all_stats' = IF ap_return = "results"
                    THEN [n \in DOMAIN all_stats \cup {drone_name} |->
                            IF n = drone_name THEN results ELSE all_stats[n]]
                    ELSE all_stats
    /\ aa_i' = aa_i + 1
    /\ pcap' = [exists |-> FALSE, size |-> 0, frames |-> <<>>]
    /\ ap_pc' = "idle"
    /\ ap_return' = "none"
    /\ results' = InitializeResults
    /\ tshark_lines' = <<>>
    /\ frame_metadata' = NoMetadata
    /\ drone_name' = ""
    /\ UNCHANGED <<warnings, drone_names, pcap_dir, aa_pc, summary>>

\* json.dump(all_stats, f); self.generate_summary_report(all_stats);
\* return all_stats
AaReport ==
    /\ aa_pc = "loop"
    /\ ap_pc = "idle"
    /\ aa_i > Len(drone_names)
    /\ summary' = <<GenerateSummaryReport(all_stats)>>
    /\ aa_pc' = "done"
    /\ UNCHANGED <<taVars, drone_names, pcap_dir, aa_i, all_stats>>

NextTraffic ==
    \/ ApValidate /\ UNCHANGED <<cvVars, fsVars, clVars, rnVars, slVars, mnVars, suVars, aaVars>>
    \/ ApRunUdp /\ UNCHANGED <<cvVars, fsVars, clVars, rnVars, slVars, mnVars, suVars, aaVars>>
    \/ ApFoldUdp /\ UNCHANGED <<cvVars, fsVars, clVars, rnVars, slVars, mnVars, suVars, aaVars>>
    \/ ApRunHttp /\ UNCHANGED <<cvVars, fsVars, clVars, rnVars, slVars, mnVars, suVars, aaVars>>
    \/ ApFoldHttp /\ UNCHANGED <<cvVars, fsVars, clVars, rnVars, slVars, mnVars, suVars, aaVars>>
    \/ ApCalculate /\ UNCHANGED <<cvVars, fsVars, clVars, rnVars, slVars, mnVars, suVars, aaVars>>

InitAnalyzer == CvIdle /\ FsIdle /\ ClIdle /\ RnIdle /\ SlIdle /\ MnIdle /\ SuIdle /\ InitTraffic /\ AaIdle

SpecTraffic == InitAnalyzer /\ [][NextTraffic]_vars

NextAll ==
    \/ NextTraffic
    \/ AaCall /\ UNCHANGED <<cvVars, fsVars, clVars, rnVars, slVars, mnVars, suVars>>
    \/ AaStore /\ UNCHANGED <<cvVars, fsVars, clVars, rnVars, slVars, mnVars, suVars>>
    \/ AaReport /\ UNCHANGED <<cvVars, fsVars, clVars, rnVars, slVars, mnVars, suVars>>

InitAggregate == CvIdle /\ FsIdle /\ ClIdle /\ RnIdle /\ SlIdle /\ MnIdle /\ SuIdle /\ TaIdle /\ InitAll

SpecAll == InitAggregate /\ [][NextAll]_vars

-----------------------------------------------------------------------------
(* The convergence engine: direct calls of the two functions, and the      *)
(* sampling loop that drives them.                                         *)

InitEngine ==
    \/ InitConv /\ FsIdle /\ ClIdle /\ RnIdle /\ SlIdle /\ MnIdle /\ SuIdle /\ TaIdle /\ AaIdle
    \/ CvIdle /\ InitFetch /\ ClIdle /\ RnIdle /\ SlIdle /\ MnIdle /\ SuIdle /\ TaIdle /\ AaIdle
    \/ CvIdle /\ InitCollect /\ RnIdle /\ SlIdle /\ MnIdle /\ SuIdle /\ TaIdle /\ AaIdle

NextEngine ==
    \/ CallJaccardIndex /\ UNCHANGED <<fsVars, clVars, rnVars, slVars, mnVars, suVars, taVars, aaVars>>
    \/ CallConvergenceIndex /\ UNCHANGED <<fsVars, clVars, rnVars, slVars, mnVars, suVars, taVars, aaVars>>
    \/ SetStop /\ UNCHANGED <<cvVars, clVars, rnVars, slVars, mnVars, suVars, taVars, aaVars>>
    \/ FsLoopTest /\ UNCHANGED <<cvVars, clVars, rnVars, slVars, mnVars, suVars, taVars, aaVars>>
    \/ FsWait /\ UNCHANGED <<cvVars, clVars, rnVars, slVars, mnVars, suVars, taVars, aaVars>>
    \/ FsFetchDrone /\ UNCHANGED <<cvVars, clVars, rnVars, slVars, mnVars, suVars, taVars, aaVars>>
    \/ FsScore /\ UNCHANGED <<cvVars, clVars, rnVars, slVars, mnVars, suVars, taVars, aaVars>>
    \/ ClLoopTest /\ UNCHANGED <<cvVars, rnVars, slVars, mnVars, suVars, taVars, aaVars>>
    \/ ClWait /\ UNCHANGED <<cvVars, rnVars, slVars, mnVars, suVars, taVars, aaVars>>
    \/ ClNetwork /\ UNCHANGED <<cvVars, rnVars, slVars, mnVars, suVars, taVars, aaVars>>
    \/ ClState /\ UNCHANGED <<cvVars, rnVars, slVars, mnVars, suVars, taVars, aaVars>>
    \/ ClCrdt /\ UNCHANGED <<cvVars, rnVars, slVars, mnVars, suVars, taVars, aaVars>>
    \/ ClScore /\ UNCHANGED <<cvVars, rnVars, slVars, mnVars, suVars, taVars, aaVars>>

SpecConv == InitEngine /\ [][NextEngine]_vars

-----------------------------------------------------------------------------
(* The experiment runner's collection thread *)

InitCollection == CvIdle /\ ClIdle /\ InitRunner /\ SlIdle /\ MnIdle /\ SuIdle /\ TaIdle /\ AaIdle

NextRunner ==
    \/ SetStop /\ UNCHANGED <<cvVars, clVars, rnVars, slVars, mnVars, suVars, taVars, aaVars>>
    \/ RnLoopTest /\ UNCHANGED <<cvVars, clVars, slVars, mnVars, suVars, taVars, aaVars>>
    \/ RnWait /\ UNCHANGED <<cvVars, clVars, slVars, mnVars, suVars, taVars, aaVars>>
    \/ RnFetchDone /\ UNCHANGED <<cvVars, clVars, slVars, mnVars, suVars, taVars, aaVars>>
    \/ RnYield /\ UNCHANGED <<cvVars, clVars, slVars, mnVars, suVars, taVars, aaVars>>
    \/ RnTimeout /\ UNCHANGED <<cvVars, clVars, slVars, mnVars, suVars, taVars, aaVars>>
    \/ RnRoundEnd /\ UNCHANGED <<cvVars, clVars, slVars, mnVars, suVars, taVars, aaVars>>

SpecRunner == InitCollection /\ [][NextRunner]_vars

-----------------------------------------------------------------------------
(* The periodic loops followed through the shutdown of their thread: one   *)
(* of the four loops runs, over at most MaxLoopDrones drones, while the    *)
(* thread that started it sets the stop flag, joins it with a timeout and  *)
(* closes the files.                                                       *)

InitLoops ==
    \/ /\ CvIdle /\ InitFetch /\ ClIdle /\ RnIdle /\ SlIdle /\ MnIdle /\ SuIdle /\ TaIdle /\ AaIdle
       /\ Len(drones) <= MaxLoopDrones
    \/ /\ CvIdle /\ InitCollect /\ RnIdle /\ SlIdle /\ MnIdle /\ SuIdle /\ TaIdle /\ AaIdle
       /\ Len(drones) <= MaxLoopDrones
    \/ /\ CvIdle /\ ClIdle /\ InitRunner /\ SlIdle /\ MnIdle /\ SuIdle /\ TaIdle /\ AaIdle
       /\ Len(drones) <= MaxLoopDrones
    \/ /\ CvIdle /\ ClIdle /\ RnIdle /\ InitSend /\ MnIdle /\ SuIdle /\ TaIdle /\ AaIdle
       /\ Len(drones) <= MaxLoopDrones

NextLoops ==
    \/ SetStop /\ UNCHANGED <<cvVars, clVars, rnVars, slVars, mnVars, suVars, taVars, aaVars>>
    \/ MainJoin /\ UNCHANGED <<cvVars, fsVars, clVars, rnVars, slVars, suVars, taVars, aaVars>>
    \/ MainClose /\ UNCHANGED <<cvVars, fsVars, clVars, rnVars, slVars, suVars, taVars, aaVars>>
    \/ FsLoopTest /\ UNCHANGED <<cvVars, clVars, rnVars, slVars, mnVars, suVars, taVars, aaVars>>
    \/ FsWait /\ UNCHANGED <<cvVars, clVars, rnVars, slVars, mnVars, suVars, taVars, aaVars>>
    \/ FsFetchDrone /\ UNCHANGED <<cvVars, clVars, rnVars, slVars, mnVars, suVars, taVars, aaVars>>
    \/ FsScore /\ UNCHANGED <<cvVars, clVars, rnVars, slVars, mnVars, suVars, taVars, aaVars>>
    \/ ClLoopTest /\ UNCHANGED <<cvVars, rnVars, slVars, mnVars, suVars, taVars, aaVars>>
    \/ ClWait /\ UNCHANGED <<cvVars, rnVars, slVars, mnVars, suVars, taVars, aaVars>>
    \/ ClNetwork /\ UNCHANGED <<cvVars, rnVars, slVars, mnVars, suVars, taVars, aaVars>>
    \/ ClState /\ UNCHANGED <<cvVars, rnVars, slVars, mnVars, suVars, taVars, aaVars>>
    \/ ClCrdt /\ UNCHANGED <<cvVars, rnVars, slVars, mnVars, suVars, taVars, aaVars>>
    \/ ClScore /\ UNCHANGED <<cvVars, rnVars, slVars, mnVars, suVars, taVars, aaVars>>
    \/ RnLoopTest /\ UNCHANGED <<cvVars, clVars, slVars, mnVars, suVars, taVars, aaVars>>
    \/ RnWait /\ UNCHANGED <<cvVars, clVars, slVars, mnVars, suVars, taVars, aaVars>>
    \/ RnFetchDone /\ UNCHANGED <<cvVars, clVars, slVars, mnVars, suVars, taVars, aaVars>>
    \/ RnYield /\ UNCHANGED <<cvVars, clVars, slVars, mnVars, suVars, taVars, aaVars>>
    \/ RnTimeout /\ UNCHANGED <<cvVars, clVars, slVars, mnVars, suVars, taVars, aaVars>>
    \/ RnRoundEnd /\ UNCHANGED <<cvVars, clVars, slVars, mnVars, suVars, taVars, aaVars>>
    \/ SlLoopTest /\ UNCHANGED <<cvVars, clVars, rnVars, mnVars, suVars, taVars, aaVars>>
    \/ SlWait /\ UNCHANGED <<cvVars, clVars, rnVars, mnVars, suVars, taVars, aaVars>>
    \/ SlSend /\ UNCHANGED <<cvVars, clVars, rnVars, mnVars, suVars, taVars, aaVars>>
    \/ SlRoundEnd /\ UNCHANGED <<cvVars, clVars, rnVars, mnVars, suVars, taVars, aaVars>>

SpecLoops == InitLoops /\ [][NextLoops]_vars

-----------------------------------------------------------------------------
(* The experiment suite *)

InitExperiments ==
    CvIdle /\ FsIdle /\ ClIdle /\ RnIdle /\ SlIdle /\ MnIdle /\ InitSuite /\ TaIdle /\ AaIdle

NextSuite ==
    \/ SuHeader /\ UNCHANGED <<cvVars, fsVars, clVars, rnVars, slVars, mnVars, taVars, aaVars>>
    \/ SuComplete /\ UNCHANGED <<cvVars, fsVars, clVars, rnVars, slVars, mnVars, taVars, aaVars>>
    \/ ExSetupTopology /\ UNCHANGED <<cvVars, fsVars, clVars, rnVars, slVars, mnVars, taVars, aaVars>>
    \/ ExStartThreads /\ UNCHANGED <<cvVars, fsVars, clVars, rnVars, slVars, mnVars, taVars, aaVars>>
    \/ ExRun /\ UNCHANGED <<cvVars, fsVars, clVars, rnVars, slVars, mnVars, taVars, aaVars>>
    \/ ExStop /\ UNCHANGED <<cvVars, fsVars, clVars, rnVars, slVars, mnVars, taVars, aaVars>>
    \/ ExFinish /\ UNCHANGED <<cvVars, fsVars, clVars, rnVars, slVars, mnVars, taVars, aaVars>>
    \/ ThreadRound /\ UNCHANGED <<cvVars, fsVars, clVars, rnVars, slVars, mnVars, taVars, aaVars>>

SpecSuite == InitExperiments /\ [][NextSuite]_vars

-----------------------------------------------------------------------------
(* Properties of the convergence engine (checked under SpecConv) *)

Range(f) == { f[k] : k \in DOMAIN f }

AllEqual(sets) == \A k \in DOMAIN sets, l \in DOMAIN sets : sets[k] = sets[l]

UnorderedPairs(n) == { <<i, j>> \in (1..n) \X (1..n) : i < j }

\* |a \cap b| / |a \cup b| as an unreduced fraction, 1/1 for two empty sets
SimilarityOf(a, b) ==
    IF a \cup b = {} THEN <<1, 1>>
    ELSE <<Cardinality(a \cap b), Cardinality(a \cup b)>>

SameValue(p, q) == p[1] * q[2] = q[1] * p[2]

\* sum over a set of index pairs of the similarity, as num/den
RECURSIVE PairSum(_, _)
PairSum(reps, pairs) ==
    IF pairs = {} THEN <<0, 1>>
    ELSE LET pr == CHOOSE x \in pairs : TRUE
             s  == SimilarityOf(reps[pr[1]], reps[pr[2]])
             r  == PairSum(reps, pairs \ {pr})
         IN  <<r[1] * s[2] + s[1] * r[2], r[2] * s[2]>>

\* C1: convergence_index returns 1.0 for fewer than two sets; otherwise its
\* loops call jaccard_index on every pair i < j exactly once (C(N,2) calls,
\* no self-pair, no repeated pair) and it returns the mean of those scores.
C1_MeanOverPairs ==
    cv_pc = "convergence" =>
        LET n == Len(replicas) IN
        IF n < 2
        THEN ci_result = One /\ ci_visited = <<>>
        ELSE /\ Range(ci_visited) = UnorderedPairs(n)
             /\ Len(ci_visited) = (n * (n - 1)) \div 2
             /\ \A k \in DOMAIN ci_visited : ci_visited[k][1] # ci_visited[k][2]
             /\ \A k, l \in DOMAIN ci_visited :
                    k # l => ci_visited[k] # ci_visited[l]
             /\ \A k \in DOMAIN ci_scores :
                    SameValue(ci_scores[k],
                              SimilarityOf(replicas[ci_visited[k][1]],
                                           replicas[ci_visited[k][2]]))
             /\ LET total == PairSum(replicas, UnorderedPairs(n))
                IN  SameValue(ci_result,
                              <<total[1], total[2] * Cardinality(UnorderedPairs(n))>>)

C1_Witness ==
    /\ cv_pc = "convergence"
    /\ Len(replicas) = 3
    /\ Len(ci_visited) = 3
    /\ ~AllEqual(replicas)

\* C2: jaccard_index returns 1.0 for two empty sets and |a & b| / |a | b|
\* otherwise, never divides by zero, and leaves its arguments as they were.
C2_Jaccard ==
    cv_pc = "jaccard" =>
        LET a == ji_args[1]
            b == ji_args[2]
        IN  /\ ji_result # ZeroDivisionError
            /\ (a = {} /\ b = {}) => ji_result = One
            /\ ~(a = {} /\ b = {}) =>
                   /\ Cardinality(a \cup b) > 0
                   /\ ji_result[1] * Cardinality(a \cup b)
                        = Cardinality(a \cap b) * ji_result[2]
            /\ a \in Range(replicas) /\ b \in Range(replicas)

C2_Witness ==
    /\ cv_pc = "jaccard"
    /\ ji_args[1] = {} /\ ji_args[2] = {}
    /\ ji_result = One

\* C3: convergence_index is exactly 1.0 when all sets are equal (also for
\* one set, and for all sets empty) and strictly below 1.0 when two sets
\* differ; the loop reports "all drones have converged" only for a round
\* whose collected sets are all equal.
C3_OneIffAllEqual ==
    /\ cv_pc = "convergence" =>
          /\ AllEqual(replicas) => ci_result = One
          /\ ~AllEqual(replicas) => ci_result # One /\ FracLess(ci_result, One)
    /\ (fs_pc \in {"loop", "wait", "done"} /\ repetitions > 0) =>
          /\ converged_report <=> AllEqual(drone_delta_sets)
          /\ converged_report <=> (convergence = One)

C3_Witness ==
    /\ fs_pc = "loop"
    /\ converged_report
    /\ Len(drones) = 3
    /\ drone_delta_sets[1] # {}

-----------------------------------------------------------------------------
(* Properties of the sampling loops fetch_states and collect_metrics_loop  *)
(* (checked under SpecConv)                                                *)

\* a step that ends a round and computes its score
ScoreStep ==
    \/ fs_pc = "fetch" /\ fs_pc' = "loop"
    \/ cl_pc = "collect" /\ cl_pc' = "loop"

\* a step that begins a round
RoundStart ==
    \/ fs_pc = "wait" /\ fs_pc' = "fetch"
    \/ cl_pc = "wait" /\ cl_pc' = "collect"

\* the drones whose /state fetch of the round did not fail
Fetched == { k \in 1..Len(drones) : drones[k] \notin state_errors }

\* C17 as stated: a /state response that is not valid JSON or lacks an
\* expected field only skips that node: the loop goes on with the other
\* nodes, the score and the later rounds, so no step that handles a /state
\* response ends the loop.
C17_Step ==
    /\ fs_pc = "fetch" => fs_pc' # "crashed"
    /\ cl_pc \in {"state", "crdt"} => cl_pc' # "crashed"

C17_MalformedNodeOnlySkipped == [][C17_Step]_vars

\* C18 as stated: the score of a round is the mean of jaccard over the
\* pairs of nodes whose fetch succeeded in that round; a failed node takes
\* no part in it.
C18_Step ==
    ScoreStep =>
        LET pairs == { pr \in UnorderedPairs(Len(drones)) :
                          pr[1] \in Fetched /\ pr[2] \in Fetched }
            total == PairSum(drone_delta_sets, pairs)
        IN  pairs # {} =>
                SameValue(convergence', <<total[1], total[2] * Cardinality(pairs)>>)

C18_FailedNodeExcluded == [][C18_Step]_vars

KeysOfDeltas(deltas) == { CellKey(deltas[k].cell) : k \in DOMAIN deltas }

\* C19: the set of a node in a round is built only from the response
\* fetched from it in that round: every set is empty when the round begins
\* and until its node is fetched, fetching a node changes no other node's
\* set, a row written for a node carries the deltas its set was built
\* from, and at the end of the round the set of a node whose fetch failed
\* is empty, whatever the node reported in earlier rounds.
C19_Step ==
    /\ RoundStart => \A k \in DOMAIN drone_delta_sets' : drone_delta_sets'[k] = {}
    /\ fs_pc = "fetch" =>
          /\ \A k \in DOMAIN drone_delta_sets : k >= fs_i => drone_delta_sets[k] = {}
          /\ \A k \in DOMAIN drone_delta_sets :
                k # fs_i => drone_delta_sets'[k] = drone_delta_sets[k]
          /\ csv_rows' # csv_rows =>
                drone_delta_sets'[fs_i]
                  = KeysOfDeltas(csv_rows'[fs_i][Len(csv_rows'[fs_i])].deltas)
    /\ cl_pc \in {"collect", "state"} =>
          /\ \A k \in DOMAIN drone_delta_sets : k >= cl_i => drone_delta_sets[k] = {}
          /\ \A k \in DOMAIN drone_delta_sets :
                k # cl_i => drone_delta_sets'[k] = drone_delta_sets[k]
    /\ ScoreStep =>
          \A k \in 1..Len(drones) : k \notin Fetched => drone_delta_sets[k] = {}

C19_SetsBuiltFromThisRound == [][C19_Step]_vars

\* second round: dr1 reported deltas in the first round and fails now
C19_Witness ==
    /\ fs_pc = "fetch"
    /\ fs_i > Len(drones)
    /\ repetitions = 1
    /\ Len(drones) >= 2
    /\ "dr1" \in state_errors
    /\ Len(csv_rows[1]) = 1
    /\ drone_delta_sets[1] = {}
    /\ drone_delta_sets[2] # {}

CellsOf(deltas) == { deltas[k].cell : k \in DOMAIN deltas }

LastRow(rows) == rows[Len(rows)]

\* the rows fetch_states wrote in the round in progress, by drone index
RowsOfRound ==
    { k \in 1..Len(drones) :
        csv_rows[k] # <<>> /\ LastRow(csv_rows[k]).repetitions = repetitions }

\* C24: a node's set identifies a delta by its cell only: every element is
\* the key of a cell, the set built from a response has one element per
\* distinct cell of the response whatever the metadata of its deltas, and
\* two nodes that report the same cells score 1.0 against each other even
\* when the metadata differ.
C24_Step ==
    /\ \A k \in DOMAIN drone_delta_sets' : drone_delta_sets'[k] \subseteq Keys
    /\ (fs_pc = "fetch" /\ csv_rows' # csv_rows) =>
          Cardinality(drone_delta_sets'[fs_i])
            = Cardinality(CellsOf(LastRow(csv_rows'[fs_i]).deltas))
    /\ (fs_pc = "fetch" /\ repetitions' # repetitions) =>
          /\ \A k, l \in RowsOfRound :
                CellsOf(LastRow(csv_rows[k]).deltas) = CellsOf(LastRow(csv_rows[l]).deltas)
                   => JaccardIndex(drone_delta_sets[k], drone_delta_sets[l]) = One
          /\ (Len(drones) = 2 /\ RowsOfRound = {1, 2}
                /\ CellsOf(LastRow(csv_rows[1]).deltas)
                     = CellsOf(LastRow(csv_rows[2]).deltas)) => convergence' = One

C24_KeyedByCell == [][C24_Step]_vars

\* two nodes report cell (0,0): one once, one twice with different metadata
C24_Witness ==
    /\ fs_pc = "loop"
    /\ repetitions = 1
    /\ Len(drones) = 2
    /\ Len(csv_rows[1]) = 1 /\ Len(csv_rows[2]) = 1
    /\ csv_rows[1][1].deltas = <<Delta(0, 0, MetaA)>>
    /\ csv_rows[2][1].deltas = <<Delta(0, 0, MetaB), Delta(0, 0, MetaA)>>
    /\ drone_delta_sets = << {"0,0"}, {"0,0"} >>
    /\ convergence = One

\* the mean of the similarity over all pairs of the round's sets, as num/den
MeanOverAllPairs(sets) ==
    LET pairs == UnorderedPairs(Len(sets))
        total == PairSum(sets, pairs)
    IN  IF pairs = {} THEN <<1, 1>>
        ELSE <<total[1], total[2] * Cardinality(pairs)>>

\* C30: in fetch_states a row written during round r carries the score
\* computed at the end of round r-1 (0.0 in the first round) and r-1 as its
\* repetition: the score changes only in the step that ends a round, where
\* it becomes the mean over that round's sets, and a row carries the score
\* and the count of completed rounds as they are when it is written; a row
\* is written only for a node that returned a non-empty delta list.
C30_Step ==
    /\ (fs_pc # "idle" /\ repetitions = 0) => convergence = <<0, 1>>
    /\ (fs_pc # "idle" /\ convergence' # convergence) =>
          /\ fs_pc = "fetch" /\ fs_pc' = "loop"
          /\ repetitions' = repetitions + 1
    /\ (fs_pc = "fetch" /\ repetitions' # repetitions) =>
          /\ repetitions' = repetitions + 1
          /\ SameValue(convergence', MeanOverAllPairs(drone_delta_sets))
          /\ csv_rows' = csv_rows
    /\ (fs_pc = "fetch" /\ csv_rows' # csv_rows) =>
          LET row == LastRow(csv_rows'[fs_i]) IN
          /\ csv_rows' = [csv_rows EXCEPT ![fs_i] = Append(@, row)]
          /\ row.repetitions = repetitions
          /\ row.convergence = convergence
          /\ row.deltas # <<>>
          /\ repetitions' = repetitions /\ convergence' = convergence

C30_RowCarriesPreviousScore == [][C30_Step]_vars

\* dr1's rows of two rounds: the first round scored 1.0 and its row says
\* 0.0; the second round scored 0 and its row says 1.0
C30_Witness ==
    /\ fs_pc = "loop"
    /\ repetitions = 2
    /\ Len(drones) = 2
    /\ Len(csv_rows[1]) = 2
    /\ csv_rows[1][1].repetitions = 0 /\ csv_rows[1][1].convergence = <<0, 1>>
    /\ csv_rows[1][2].repetitions = 1 /\ csv_rows[1][2].convergence = <<1, 1>>
    /\ convergence = <<0, 1>>
    /\ Len(csv_rows[2]) = 1
    /\ csv_rows[2][1].repetitions = 0

\* C22: a round whose score is 1.0 is only reported: the step that scores
\* a round leaves the stop flag alone and returns to the loop test, a loop
\* ends only when the stop flag is set, and after a round that scored 1.0
\* the loop test and the wait go on to the next round as long as the flag
\* is not set.
C22_Step ==
    /\ (fs_pc = "fetch" /\ repetitions' # repetitions) =>
          fs_pc' = "loop" /\ stop_event' = stop_event
    /\ (cl_pc = "collect" /\ iteration' # iteration) =>
          cl_pc' = "loop" /\ stop_event' = stop_event
    /\ (fs_pc # "done" /\ fs_pc' = "done") => stop_event
    /\ (cl_pc # "done" /\ cl_pc' = "done") => stop_event
    /\ (convergence = One /\ ~stop_event) =>
          /\ (fs_pc = "loop" /\ fs_pc' # fs_pc) => fs_pc' = "wait"
          /\ (fs_pc = "wait" /\ fs_pc' # fs_pc) => fs_pc' = "fetch"
          /\ (cl_pc = "loop" /\ cl_pc' # cl_pc) => cl_pc' = "wait"
          /\ (cl_pc = "wait" /\ cl_pc' # cl_pc) => cl_pc' = "collect"

C22_ConvergenceOnlyReported == [][C22_Step]_vars

\* the round after a round that scored 1.0 is being sampled
C22_Witness ==
    /\ fs_pc = "fetch"
    /\ fs_i = 2
    /\ repetitions = 1
    /\ converged_report
    /\ convergence = One
    /\ ~stop_event
    /\ Len(drones) = 2
    /\ Len(csv_rows[1]) = 2

-----------------------------------------------------------------------------
(* Properties of the traffic classifier (checked under SpecTraffic) *)

Bucket(res, t) == res.by_message_type[t]

RECURSIVE SumCount(_, _)
SumCount(res, types) ==
    IF types = {} THEN 0
    ELSE LET t == CHOOSE x \in types : TRUE
         IN  Bucket(res, t).count + SumCount(res, types \ {t})

RECURSIVE SumBytes(_, _)
SumBytes(res, types) ==
    IF types = {} THEN 0
    ELSE LET t == CHOOSE x \in types : TRUE
         IN  Bucket(res, t).bytes + SumBytes(res, types \ {t})

\* the captured frame a tshark output line was decoded from
FrameOfLine(parts) ==
    pcap.frames[CHOOSE k \in 1..Len(pcap.frames) : ToString(k) = parts[1]]

\* the X-Message-Type value a frame carries ("" when it carries none)
HintsIn(headers) ==
    { headers[k].value : k \in { l \in DOMAIN headers : headers[l].name = "X-Message-Type" } }

HintOf(frame) ==
    LET hs == HintsIn(frame.request) \cup HintsIn(frame.response)
    IN  IF hs = {} THEN "" ELSE CHOOSE h \in hs : TRUE

FoldingUdp  == ap_pc = "udp_fold" /\ tshark_lines # <<>>
FoldingHttp == ap_pc = "http_fold" /\ tshark_lines # <<>>
Folded == FrameOfLine(Head(tshark_lines))

\* bucket t gains one packet of the given size and no other bucket changes
CountedUnder(t, size) ==
    /\ Bucket(results', t).count = Bucket(results, t).count + 1
    /\ Bucket(results', t).bytes = Bucket(results, t).bytes + size
    /\ \A u \in MessageTypes \ {t} : Bucket(results', u) = Bucket(results, u)

HasFrame(P(_)) == \E k \in 1..Len(pcap.frames) : P(pcap.frames[k])

Returned == ap_pc = "done" /\ ap_return = "results"

\* C5: at every point of the fold, the per-type counts sum to
\* total_packets and the per-type bytes sum to total_bytes.
C5_BucketsSumToTotals ==
    /\ SumCount(results, MessageTypes) = results.total_packets
    /\ SumBytes(results, MessageTypes) = results.total_bytes

C5_Witness ==
    /\ Returned
    /\ results.total_packets = 3
    /\ Bucket(results, "HELLO").count = 1
    /\ Bucket(results, "DELTA").count = 1
    /\ Bucket(results, "UNKNOWN").count = 1

\* C6: every folded record is counted in exactly one bucket with its full
\* size and the fold goes on; an HTTP record with no type hint, or with a
\* hint that is not one of the seven tags, is counted in UNKNOWN.
C6_Step ==
    /\ (FoldingUdp \/ FoldingHttp) =>
          /\ SumCount(results', MessageTypes) = SumCount(results, MessageTypes) + 1
          /\ SumBytes(results', MessageTypes)
               = SumBytes(results, MessageTypes) + ParseInt(Folded.len)
          /\ ap_pc' \in {"udp_fold", "http_run", "http_fold", "calc"}
    /\ (FoldingHttp /\ HintOf(Folded) \notin MessageTypes) =>
          CountedUnder("UNKNOWN", ParseInt(Folded.len))

C6_UnmatchedIsUnknown == [][C6_Step]_vars

NoHintHttp(f) == f.proto = "http" /\ HintOf(f) = ""
ForeignHintHttp(f) == f.proto = "http" /\ HintOf(f) = "SENSOR"

C6_Witness ==
    /\ Returned
    /\ HasFrame(NoHintHttp)
    /\ HasFrame(ForeignHintHttp)
    /\ Bucket(results, "UNKNOWN").count = 2
    /\ Bucket(results, "UNKNOWN").bytes = 24

\* the upper-case form of a hint value
UpperCase(h) == IF h = "state" THEN "STATE" ELSE h

\* C7 as stated: a record with a type hint is counted under the tag the
\* hint equals after case normalization.
C7_Original_Step ==
    (FoldingHttp /\ HintOf(Folded) # "" /\ UpperCase(HintOf(Folded)) \in MessageTypes) =>
        CountedUnder(UpperCase(HintOf(Folded)), ParseInt(Folded.len))

C7_CaseNormalizedHint == [][C7_Original_Step]_vars

\* C7 amended: an HTTP record with a type hint is counted under the tag
\* that is exactly (case-sensitively) equal to the hint value, and under
\* UNKNOWN when the hint equals no tag, e.g. when it differs in letter case;
\* no other rule is consulted for a record with a hint.
C7_Step ==
    (FoldingHttp /\ HintOf(Folded) # "") =>
        IF HintOf(Folded) \in MessageTypes
        THEN CountedUnder(HintOf(Folded), ParseInt(Folded.len))
        ELSE CountedUnder("UNKNOWN", ParseInt(Folded.len))

C7_ExactHint == [][C7_Step]_vars

LowerCaseHint(f) == f.proto = "http" /\ HintOf(f) = "state"
DeltaHint(f) == f.proto = "http" /\ HintOf(f) = "DELTA"

C7_Witness ==
    /\ Returned
    /\ HasFrame(LowerCaseHint)
    /\ HasFrame(DeltaHint)
    /\ Bucket(results, "DELTA").count >= 1
    /\ Bucket(results, "STATE").count = 0
    /\ Bucket(results, "UNKNOWN").count >= 1

\* C8 as stated: a UDP record is HELLO if and only if its port is the
\* discovery port, and UNKNOWN on any other port.
C8_Original_Step ==
    FoldingUdp =>
        IF Folded.port = DiscoveryPort
        THEN CountedUnder("HELLO", ParseInt(Folded.len))
        ELSE CountedUnder("UNKNOWN", ParseInt(Folded.len))

C8_HelloIffDiscoveryPort == [][C8_Original_Step]_vars

\* C8 amended: every UDP record is counted under HELLO, whatever its
\* ports; a UDP record is never counted under UNKNOWN.
C8_Step == FoldingUdp => CountedUnder("HELLO", ParseInt(Folded.len))

C8_EveryUdpIsHello == [][C8_Step]_vars

OtherPortUdp(f) == f.proto = "udp" /\ f.port # DiscoveryPort

C8_Witness ==
    /\ Returned
    /\ HasFrame(OtherPortUdp)
    /\ Bucket(results, "HELLO").count = results.udp_packets
    /\ results.udp_packets >= 1
    /\ Bucket(results, "UNKNOWN").count = 0

\* the path-prefix table of the specification
PathTag(path) ==
    CASE path = "/delta" -> "DELTA"
      [] path = "/anti-entropy" -> "ANTI-ENTROPY"
      [] path = "/state" -> "STATE"
      [] path = "/stats" -> "STATS"
      [] path = "/position" -> "POSITION"
      [] OTHER -> "UNKNOWN"

\* C9 as stated: an HTTP record without a type hint is classified by the
\* prefix of its request path, UNKNOWN only when no prefix matches.
C9_Original_Step ==
    (FoldingHttp /\ HintOf(Folded) = "" /\ Folded.request # <<>>) =>
        CountedUnder(PathTag(Folded.path), ParseInt(Folded.len))

C9_ClassifiedByPath == [][C9_Original_Step]_vars

\* C9 amended: an HTTP record without a type hint is counted under UNKNOWN,
\* whatever its request path (or the URI it responds to): the request path
\* is not used for classification.
C9_Step ==
    (FoldingHttp /\ HintOf(Folded) = "") =>
        CountedUnder("UNKNOWN", ParseInt(Folded.len))

C9_NoHintIsUnknown == [][C9_Step]_vars

NoHintDeltaRequest(f) == NoHintHttp(f) /\ f.request # <<>> /\ f.path = "/delta"
NoHintDeltaResponse(f) == NoHintHttp(f) /\ f.response # <<>> /\ f.path = "/delta"

C9_Witness ==
    /\ Returned
    /\ HasFrame(NoHintDeltaRequest)
    /\ HasFrame(NoHintDeltaResponse)
    /\ Bucket(results, "UNKNOWN").count = 2
    /\ Bucket(results, "DELTA").count = 0

\* C10: after _calculate_statistics, percentage_unresponded of every type
\* is 0.0 when requests == 0 and (requests - responses) / requests * 100
\* otherwise; no division by zero happens.
C10_PercentageUnresponded ==
    Returned =>
        \A t \in MessageTypes :
            LET st == Bucket(results, t)
                pct == st.percentage_unresponded
            IN  /\ pct # ZeroDivisionError
                /\ st.requests = 0 => pct = <<0, 1>>
                /\ st.requests > 0 =>
                      pct[1] * st.requests
                        = (st.requests - st.responses) * 100 * pct[2]

C10_Witness ==
    /\ Returned
    /\ Bucket(results, "DELTA").requests = 2
    /\ Bucket(results, "DELTA").responses = 1
    /\ Bucket(results, "DELTA").percentage_unresponded = <<50, 1>>
    /\ Bucket(results, "STATE").requests = 0

\* the captured frames are pairwise different
NoDuplicatedFrames ==
    \A k, l \in 1..Len(pcap.frames) : k # l => pcap.frames[k] # pcap.frames[l]

\* C11 as stated: for a capture without duplicated frames, the
\* percentage_unresponded reported for every message type lies in [0, 100].
C11_PercentageInRange ==
    (Returned /\ NoDuplicatedFrames) =>
        \A t \in MessageTypes :
            LET pct == Bucket(results, t).percentage_unresponded
            IN  pct[1] >= 0 /\ pct[1] <= 100 * pct[2]

\* C12: avg_packet_size is 0 when total_packets == 0 and
\* total_bytes / total_packets otherwise; a capture with no decoded packet
\* does not divide by zero.
C12_AvgPacketSize ==
    Returned =>
        LET avg == results.avg_packet_size IN
        /\ avg # ZeroDivisionError
        /\ results.total_packets = 0 => avg = <<0, 1>>
        /\ results.total_packets > 0 =>
               avg[1] * results.total_packets = results.total_bytes * avg[2]

C12_Witness ==
    /\ Returned
    /\ pcap.frames # <<>>
    /\ results.total_packets = 0
    /\ results.avg_packet_size = <<0, 1>>

CountFrames(proto) ==
    Cardinality({ k \in 1..Len(pcap.frames) : pcap.frames[k].proto = proto })

\* C13 as stated: every captured frame is counted exactly once: it adds 1
\* to total_packets and 1 to exactly one of udp_packets / tcp_packets.
C13_EveryFrameCountedOnce ==
    Returned =>
        /\ results.total_packets = Len(pcap.frames)
        /\ results.udp_packets + results.tcp_packets = Len(pcap.frames)

\* C13 amended: every decoded record (a line printed by a decoding pass
\* that succeeded) adds exactly 1 to total_packets and exactly 1 to one of
\* udp_packets (pass "udp") / tcp_packets (pass "http"); a frame matched by
\* neither display filter, and every frame of a pass whose tshark run
\* failed, is not counted, so total_packets may be below the frame count.
C13_Step ==
    /\ FoldingUdp =>
          /\ results'.total_packets = results.total_packets + 1
          /\ results'.udp_packets = results.udp_packets + 1
          /\ results'.tcp_packets = results.tcp_packets
    /\ FoldingHttp =>
          /\ results'.total_packets = results.total_packets + 1
          /\ results'.tcp_packets = results.tcp_packets + 1
          /\ results'.udp_packets = results.udp_packets
    /\ (ap_pc' = "done" /\ ap_return' = "results") =>
          /\ results'.udp_packets \in {0, CountFrames("udp")}
          /\ results'.tcp_packets \in {0, CountFrames("http")}
          /\ results'.total_packets = results'.udp_packets + results'.tcp_packets

C13_DecodedRecordCountedOnce == [][C13_Step]_vars

PlainTcp(f) == f.proto = "tcp"

C13_Witness ==
    /\ Returned
    /\ Len(pcap.frames) = 3
    /\ HasFrame(PlainTcp)
    /\ results.total_packets = 2
    /\ results.udp_packets = 1
    /\ results.tcp_packets = 1

\* the X-Message-Type value of the response line of a frame, "" if none
ResponseHintOf(frame) ==
    IF HintsIn(frame.response) = {} THEN ""
    ELSE CHOOSE h \in HintsIn(frame.response) : TRUE

SumRequests(res) ==
    LET RECURSIVE Over(_)
        Over(types) == IF types = {} THEN 0
                       ELSE LET t == CHOOSE x \in types : TRUE
                            IN  Bucket(res, t).requests + Over(types \ {t})
    IN  Over(MessageTypes)

SumResponses(res) ==
    LET RECURSIVE Over(_)
        Over(types) == IF types = {} THEN 0
                       ELSE LET t == CHOOSE x \in types : TRUE
                            IN  Bucket(res, t).responses + Over(types \ {t})
    IN  Over(MessageTypes)

\* C28: for every message type requests + responses == count at every
\* point of the fold; a folded record adds one to exactly one of the two
\* counters of exactly one bucket, and a record without a response marker
\* (every UDP record, every HTTP record whose response line carries no
\* type) is counted as a request.
C28_Step ==
    /\ \A t \in MessageTypes :
          Bucket(results', t).requests + Bucket(results', t).responses
            = Bucket(results', t).count
    /\ (FoldingUdp \/ FoldingHttp) =>
          /\ SumRequests(results') + SumResponses(results')
               = SumRequests(results) + SumResponses(results) + 1
          /\ \E t \in MessageTypes :
                /\ Bucket(results', t).count = Bucket(results, t).count + 1
                /\ \A u \in MessageTypes \ {t} : Bucket(results', u) = Bucket(results, u)
    /\ (FoldingUdp \/ (FoldingHttp /\ ResponseHintOf(Folded) = "")) =>
          /\ SumRequests(results') = SumRequests(results) + 1
          /\ SumResponses(results') = SumResponses(results)

C28_RequestsPlusResponses == [][C28_Step]_vars

UntypedResponse(f) == f.proto = "http" /\ f.response # <<>> /\ HintOf(f) = ""
TypedResponse(f) == f.proto = "http" /\ ResponseHintOf(f) = "DELTA"

\* a UDP record, a typed response and a response without a type
C28_Witness ==
    /\ Returned
    /\ HasFrame(UntypedResponse)
    /\ HasFrame(TypedResponse)
    /\ Bucket(results, "HELLO").requests = 1
    /\ Bucket(results, "DELTA").responses = 1
    /\ Bucket(results, "DELTA").requests = 0
    /\ Bucket(results, "UNKNOWN").requests = 1
    /\ Bucket(results, "UNKNOWN").responses = 0

\* C29: at every point of the fold udp_packets + tcp_packets ==
\* total_packets, udp_bytes + tcp_bytes == total_bytes, packet_sizes has
\* total_packets elements that sum to total_bytes, and no step of the fold
\* decreases one of these counters.
C29_Step ==
    /\ results'.udp_packets + results'.tcp_packets = results'.total_packets
    /\ results'.udp_bytes + results'.tcp_bytes = results'.total_bytes
    /\ Len(results'.packet_sizes) = results'.total_packets
    /\ SumInts(results'.packet_sizes) = results'.total_bytes
    /\ results'.total_packets >= results.total_packets
    /\ results'.total_bytes >= results.total_bytes
    /\ results'.udp_packets >= results.udp_packets
    /\ results'.udp_bytes >= results.udp_bytes
    /\ results'.tcp_packets >= results.tcp_packets
    /\ results'.tcp_bytes >= results.tcp_bytes
    /\ Len(results'.packet_sizes) >= Len(results.packet_sizes)
    /\ (FoldingUdp \/ FoldingHttp) =>
          /\ results'.total_packets = results.total_packets + 1
          /\ results'.total_bytes = results.total_bytes + ParseInt(Folded.len)
          /\ results'.packet_sizes = Append(results.packet_sizes, ParseInt(Folded.len))

C29_PacketCountersConsistent == [][C29_Step]_vars

C29_Witness ==
    /\ Returned
    /\ results.packet_sizes = <<4, 12, 4>>
    /\ results.total_packets = 3
    /\ results.total_bytes = 20
    /\ results.udp_packets = 1 /\ results.udp_bytes = 4
    /\ results.tcp_packets = 2 /\ results.tcp_bytes = 16

-----------------------------------------------------------------------------
(* Properties of the aggregation over sources (checked under SpecAll) *)

\* a file that is missing, empty, or shorter than the 24-byte pcap header
Rejected(file) == ~file.exists \/ file.size < 24

Decoding == ap_pc \in {"udp_run", "udp_fold", "http_run", "http_fold", "calc"}

DecodingWarnings == {"udp failed", "cut short", "http failed"}

RECURSIVE SumOver(_, _)
SumOver(S, f) ==
    IF S = {} THEN 0
    ELSE LET n == CHOOSE x \in S : TRUE
         IN  f[n] + SumOver(S \ {n}, f)

AllDone == aa_pc = "done"

\* C14: a capture file that is missing, empty or shorter than 24 bytes is
\* rejected before any decoding: analyze_pcap returns {} without running a
\* pass, analyze_all leaves the source out of its mapping, and the totals
\* of the report count nothing for it.
C14_RejectedBeforeDecoding ==
    /\ Decoding => ~Rejected(pcap)
    /\ (ap_pc = "done" /\ Rejected(pcap)) =>
          /\ ap_return = "empty"
          /\ results = InitializeResults
          /\ tshark_lines = <<>>
    /\ \A w \in warnings :
          Rejected(pcap_dir[w.file]) => w.kind \notin DecodingWarnings
    /\ \A n \in DOMAIN all_stats : ~Rejected(pcap_dir[n])
    /\ AllDone =>
          LET accepted == { n \in DOMAIN pcap_dir : ~Rejected(pcap_dir[n]) }
              r == summary[1]
          IN  /\ r.drones_analyzed <= Cardinality(accepted)
              /\ r.total_packets =
                    SumOver(accepted \cap DOMAIN all_stats,
                            [n \in DOMAIN all_stats |-> all_stats[n].total_packets])
              /\ r.total_bytes =
                    SumOver(accepted \cap DOMAIN all_stats,
                            [n \in DOMAIN all_stats |-> all_stats[n].total_bytes])

C14_Witness ==
    /\ AllDone
    /\ Len(drone_names) = 2
    /\ pcap_dir["dr1"].exists /\ pcap_dir["dr1"].size = 10
    /\ DOMAIN all_stats = {"dr2"}
    /\ all_stats["dr2"].total_packets = 1
    /\ summary[1].drones_analyzed = 1
    /\ summary[1].total_packets = 1
    /\ warnings = {[file |-> "dr1", kind |-> "too small"]}

\* C15 as stated: a source on which the decoding tool failed in either
\* pass is absent from the mapping analyze_all returns, is not counted
\* among the sources analyzed, and adds nothing to the totals.
C15_FailedSourceExcluded ==
    AllDone =>
        LET failed == { w.file : w \in { v \in warnings : v.kind \in DecodingWarnings } }
        IN  /\ \A n \in failed : n \notin DOMAIN all_stats
            /\ summary[1].drones_analyzed
                  <= Cardinality(DOMAIN pcap_dir \ failed)
            /\ summary[1].total_packets =
                  SumOver(DOMAIN all_stats \ failed,
                          [n \in DOMAIN all_stats |-> all_stats[n].total_packets])

\* C16: in the report over several sources every total (packets, bytes,
\* per-type count and bytes) is the sum of that field over the sources,
\* every global percentage is computed from the summed numerator and the
\* summed denominator (0 when the denominator is 0), and the global
\* per-type counts sum to the global packet total.
C16_SumsAndRecomputedShares ==
    AllDone =>
        LET r == summary[1]
            S == DOMAIN all_stats
        IN  /\ r.total_packets = SumOver(S, [n \in S |-> all_stats[n].total_packets])
            /\ r.total_bytes = SumOver(S, [n \in S |-> all_stats[n].total_bytes])
            /\ S # {} => DOMAIN r.msg_type_totals = MessageTypes
            /\ \A t \in DOMAIN r.msg_type_totals :
                  /\ r.msg_type_totals[t].count =
                        SumOver(S, [n \in S |-> Bucket(all_stats[n], t).count])
                  /\ r.msg_type_totals[t].bytes =
                        SumOver(S, [n \in S |-> Bucket(all_stats[n], t).bytes])
                  /\ LET pp == r.breakdown[t].pct_packets
                         pb == r.breakdown[t].pct_bytes
                     IN  /\ IF r.total_packets = 0 THEN pp = <<0, 1>>
                            ELSE pp[1] * r.total_packets
                                   = r.msg_type_totals[t].count * 100 * pp[2]
                         /\ IF r.total_bytes = 0 THEN pb = <<0, 1>>
                            ELSE pb[1] * r.total_bytes
                                   = r.msg_type_totals[t].bytes * 100 * pb[2]
            /\ SumOver(DOMAIN r.msg_type_totals,
                       [t \in DOMAIN r.msg_type_totals |-> r.msg_type_totals[t].count])
                  = r.total_packets

\* two sources whose HELLO byte shares are 100% and 0%: the global share
\* is 4 / 16 = 25%, not their mean
C16_Witness ==
    /\ AllDone
    /\ DOMAIN all_stats = {"dr1", "dr2"}
    /\ all_stats["dr1"].total_bytes = 4
    /\ Bucket(all_stats["dr1"], "HELLO").bytes = 4
    /\ all_stats["dr2"].total_bytes = 12
    /\ Bucket(all_stats["dr2"], "HELLO").bytes = 0
    /\ summary[1].total_bytes = 16
    /\ summary[1].breakdown["HELLO"].pct_bytes = <<25, 1>>

-----------------------------------------------------------------------------
(* Properties of the experiment runner's collection thread (checked under  *)
(* SpecRunner)                                                             *)

\* C20 as stated: a fetch that does not complete within the round's wait
\* bound only fails its node for that round: the results of the nodes that
\* completed are recorded and the loop goes on with the next round, so no
\* step taken while the round's futures are collected ends the loop.
C20_Step == rn_pc = "collect" => rn_pc' \in {"collect", "loop"}

C20_TimeoutIsPerNode == [][C20_Step]_vars

-----------------------------------------------------------------------------
(* Properties of the periodic loops and of their shutdown (checked under   *)
(* SpecLoops)                                                              *)

\* One loop, at position pc before a step and next after it; `round` are
\* its positions inside a round and `first` the one a round begins at.
\* The flag is tested before the wait (at "loop") and after it (at
\* "wait"); once it is set no step enters the wait, no round begins, and
\* the loop test and the wait both leave the loop, for good.
ObeysStop(pc, next, first, round) ==
    /\ (pc = "loop" /\ next # pc) => next = IF stop_event THEN "done" ELSE "wait"
    /\ (pc = "wait" /\ next # pc) => next = IF stop_event THEN "done" ELSE first
    /\ stop_event => (next = "wait" => pc = "wait")
    /\ stop_event => (next \in round => pc \in round)
    /\ pc = "done" => next = "done"
    /\ (pc \in round /\ next \notin round) => next \in {"loop", "crashed"}

NumDone == Cardinality({ k \in DOMAIN futures : futures[k].done })

\* what is left of the round in progress: it decreases with every step the
\* loop takes inside a round
RoundLeft ==
    [fs |-> Len(drones) + 1 - fs_i,
     cl |-> 3 * (Len(drones) + 1 - cl_i)
              - (IF cl_pc = "state" THEN 1 ELSE IF cl_pc = "crdt" THEN 2 ELSE 0),
     rn |-> 2 * Len(drones) - NumDone - Cardinality(yielded),
     sl |-> Len(drones) + 1 - sl_i]

\* C21: each of the four periodic loops tests the stop flag before and
\* after each wait; once the flag is set the loop begins no wait and no
\* round, the round in progress only advances towards its end, and the
\* loop then returns.
C21_Step ==
    /\ ObeysStop(fs_pc, fs_pc', "fetch", {"fetch"})
    /\ ObeysStop(cl_pc, cl_pc', "collect", {"collect", "state", "crdt"})
    /\ ObeysStop(rn_pc, rn_pc', "collect", {"collect"})
    /\ ObeysStop(sl_pc, sl_pc', "send", {"send"})
    /\ (fs_pc = "fetch" /\ fs_pc' = "fetch") => RoundLeft'.fs <= RoundLeft.fs
    /\ (fs_pc = "fetch" /\ fs_pc' = "fetch" /\ fs_i' # fs_i) => RoundLeft'.fs < RoundLeft.fs
    /\ (cl_pc \in {"collect", "state", "crdt"} /\ cl_pc' \in {"collect", "state", "crdt"}
          /\ <<cl_pc, cl_i>>' # <<cl_pc, cl_i>>) => RoundLeft'.cl < RoundLeft.cl
    /\ (rn_pc = "collect" /\ rn_pc' = "collect" /\ <<futures, yielded>>' # <<futures, yielded>>)
          => RoundLeft'.rn < RoundLeft.rn
    /\ (sl_pc = "send" /\ sl_pc' = "send" /\ sl_i' # sl_i) => RoundLeft'.sl < RoundLeft.sl

C21_StopFlagObeyed == [][C21_Step]_vars

\* the flag was set during the second round, after its first drone was
\* fetched: the round goes on with the second drone
C21_Witness ==
    /\ stop_event
    /\ fs_pc = "fetch"
    /\ fs_i = 2
    /\ repetitions = 1
    /\ Len(drones) = 2
    /\ Len(csv_rows[1]) = 2

\* C25 as stated: in every interleaving of the shutdown with a round in
\* progress, the sampling thread has stopped before the files it writes
\* are closed, so that it never writes to a closed file.
C25_ThreadStoppedBeforeClose ==
    files_closed =>
        /\ ~(fs_pc = "fetch" /\ fs_i <= Len(drones))
        /\ ~(rn_pc = "collect" /\ yielded # DOMAIN futures)

-----------------------------------------------------------------------------
(* Properties of the experiment suite (checked under SpecSuite) *)

\* the ids of the enabled entries of the experiments file, in list order
EnabledIds ==
    LET RECURSIVE Ids(_)
        Ids(es) == IF es = <<>> THEN <<>>
                   ELSE IF Enabled(Head(es)) THEN <<Head(es).id>> \o Ids(Tail(es))
                   ELSE Ids(Tail(es))
    IN Ids(experiments_json)

\* C23: run_all_experiments attempts every enabled experiment exactly once, in
\* list order: no failure of one experiment ends the suite, the experiments
\* attempted so far are always the first enabled ones in list order, and the
\* suite reaches its end with all of them attempted.
C23_EveryExperimentAttempted ==
    /\ su_pc # "aborted"
    /\ Len(attempted) <= Len(EnabledIds)
    /\ attempted = SubSeq(EnabledIds, 1, Len(attempted))
    /\ su_pc = "complete" => attempted = EnabledIds

\* C26: whenever run_single_experiment has ended after the threads of the
\* experiment were started, the stop flag of that experiment is set, and no
\* round of an experiment's threads begins while another experiment is run.
C26_StopFlagSetWhenExperimentEnds ==
    /\ \A k \in 1..Len(experiments) :
         (k < idx /\ experiments[k].id \in DOMAIN stop_events)
             => stop_events[experiments[k].id]
    /\ \A r \in rounds_during : r[1] = r[2]

\* C27: once _setup_topology has returned for an experiment, the number of
\* drone nodes it created equals the drone_count parameter of the experiment
\* and the attributes of config have the values they had before the call.
C27_TopologyMatchesDroneCount ==
    ex_pc \in {"threads", "run", "stop", "finish"} =>
        /\ stations = experiment.parameters.drone_count
        /\ config = original_values

====
